---- MODULE Spec2Model ----
(***************************************************************************)
(* A model of the ppxml rendering engine: the immutable RenderContext,     *)
(* the generic TEITraverser and the text, HTML and EPUB renderers.         *)
(*                                                                         *)
(* Representation.  A string is a sequence of atoms (Str); an atom is a    *)
(* TLA+ string standing for a run of characters that the code never cuts   *)
(* ("Hello", "<p>", "&amp;") and the empty sequence is ''.  White space     *)
(* is always an atom of its own (" ", "\n") so that strip() and split()    *)
(* act on whole atoms.  The text of an atom is printable ASCII.  Every     *)
(* other character is an atom of its own, named by its code point:         *)
(* "U+00FF", "U+03B1", "U+000B" (one character each, see AtomLen); only    *)
(* the tab, the newline, the carriage return and the form feed are written *)
(* "\t", "\n", "\r" and "\f".  The four quotation glyphs U+201C, U+201D,   *)
(* U+2018 and U+2019 and the bullet U+2022 have the names "LDQ", "RDQ",    *)
(* "LSQ", "RSQ" and "BULLET".                                              *)
(* An element is a record [tag, attrs, text, kids, tail]; an absent text   *)
(* or tail is the empty string.                                            *)
(* The documents hold element nodes only (no comments or processing        *)
(* instructions), so the isinstance(child.tag, str) guards always pass.    *)
(***************************************************************************)
EXTENDS Integers, Sequences, FiniteSets, TLC

VARIABLES
    heap,   \* SpecContext: the RenderContext objects built so far, by identity
    last,   \* SpecContext: the last operation, its receiver, result and error
    renderer, \* the renderer in use: [fmt |-> "text", line_width |-> n],
            \* [fmt |-> "html"] or [fmt |-> "epub", xhtml |-> TRUE]
    elem,   \* the input of the operation: an element, a document or, for
            \* _combine_parts, the list of parts, for
            \* filter_css_for_format, its two arguments
    ctx,    \* the RenderContext handed to the operation
    pc,     \* "ready" before the operation, "done" after it
    res,    \* the operation's name, its output and the dispatches it made
    returned \* the first render_chapter call made on the renderer: its
            \* arguments, the renderer's attributes at the call and what it
            \* returned; empty until then

vars == <<heap, last, renderer, elem, ctx, pc, res, returned>>

----------------------------------------------------------------------------
(* Strings as sequences of atoms *)

\* The characters for which str.isspace() holds: what str.strip() and
\* str.split() take for white space, and what \s matches.
WhiteSpace ==
    {" ", "\t", "\n", "\r", "\f", "U+000B", "U+001C", "U+001D", "U+001E",
     "U+001F", "U+0085", "U+00A0", "U+1680", "U+2000", "U+2001", "U+2002",
     "U+2003", "U+2004", "U+2005", "U+2006", "U+2007", "U+2008", "U+2009",
     "U+200A", "U+2028", "U+2029", "U+202F", "U+205F", "U+3000"}

\* The named glyphs.
Glyphs == {"LDQ", "RDQ", "LSQ", "RSQ", "BULLET"}

\* An atom that names one character by its code point.
IsCodePoint(a) == Len(a) >= 6 /\ SubSeq(a, 1, 2) = "U+"

\* len() of an atom.
AtomLen(a) == IF a \in Glyphs \/ IsCodePoint(a) THEN 1 ELSE Len(a)

RECURSIVE StrLen(_)
StrLen(s) == IF s = <<>> THEN 0 ELSE AtomLen(Head(s)) + StrLen(Tail(s))

RECURSIVE Concat(_)
Concat(ss) == IF ss = <<>> THEN <<>> ELSE Head(ss) \o Concat(Tail(ss))

RECURSIVE Join(_, _)
Join(sep, ss) ==
    IF ss = <<>> THEN <<>>
    ELSE IF Len(ss) = 1 THEN Head(ss)
    ELSE Head(ss) \o sep \o Join(sep, Tail(ss))

RECURSIVE Rep(_, _)
Rep(s, n) == IF n <= 0 THEN <<>> ELSE s \o Rep(s, n - 1)

\* str.strip(): s without its leading and trailing white space.
Strip(s) ==
    LET inked == {i \in DOMAIN s : s[i] \notin WhiteSpace}
    IN  IF inked = {} THEN <<>>
        ELSE SubSeq(s, CHOOSE i \in inked : \A j \in inked : i <= j,
                    CHOOSE i \in inked : \A j \in inked : j <= i)

Spaces(n) == [i \in 1..n |-> " "]

Count(a, s) == Cardinality({i \in 1..Len(s) : s[i] = a})

----------------------------------------------------------------------------
(* RenderContext *)

NoIdMap == <<>>

SomeIdMap(m) == <<m>>

DefaultContext ==
    [parent_tag |-> "", parent_rend |-> "", quote_depth |-> 0,
     block_depth |-> 0, indent_level |-> 0,
     indent_string |-> <<" ", " ", " ", " ">>,
     line_width |-> 72, xhtml |-> FALSE, id_map |-> NoIdMap]

RenderContext(changes) ==
    [f \in DOMAIN DefaultContext |->
        IF f \in DOMAIN changes THEN changes[f] ELSE DefaultContext[f]]

Replace(self, changes) ==
    [f \in DOMAIN self |->
        IF f \in DOMAIN changes THEN changes[f] ELSE self[f]]

with_parent(self, tag, rend) ==
    Replace(self, [parent_tag |-> tag, parent_rend |-> rend])

with_deeper_quote_none(self) == self

with_deeper_quote(self) ==
    Replace(self, [quote_depth |-> self.quote_depth + 1])

with_deeper_block(self) ==
    Replace(self, [block_depth |-> self.block_depth + 1])

with_indent_none(self, levels) == self

\* An indentation built on the default context, not on self.
with_indent_reset(self, levels) ==
    RenderContext([indent_level |-> self.indent_level + levels])

with_indent(self, levels) ==
    Replace(self, [indent_level |-> self.indent_level + levels])

with_xhtml(self, xhtml) == Replace(self, [xhtml |-> xhtml])

with_id_map(self, id_map) == Replace(self, [id_map |-> SomeIdMap(id_map)])

current_indent(self) == Rep(self.indent_string, self.indent_level)

is_inline_parent(self) ==
    self.parent_tag \in {"p", "item", "cell", "note", "head", "l"}

is_block_parent_with_p(self) ==
    self.parent_tag \in {"div", "body", "front", "back", "quote", "figure", "p"}

is_block_parent(self) ==
    self.parent_tag \in {"div", "body", "front", "back", "quote", "figure"}

IdMapTruthy(self) == self.id_map # NoIdMap /\ DOMAIN self.id_map[1] # {}

----------------------------------------------------------------------------
(* Elements.  attrs maps the names of the attributes present to their      *)
(* values (strings); tag holds the name without the TEI namespace, which   *)
(* every element of the documents is in.                                   *)

Element(tag, attrs, text, kids, tail) ==
    [tag |-> tag, attrs |-> attrs, text |-> text, kids |-> kids,
     tail |-> tail]

NoAttrs == [a \in {} |-> <<>>]

Get(e, name, default) ==
    IF name \in DOMAIN e.attrs THEN e.attrs[name] ELSE default

strip_namespace(tag) == tag

StartsWith(s, prefix) == s # <<>> /\ Head(s) = prefix

\* A rendered value: a Python str (t = "str", v a string) or a list of
\* lines (t = "list", v a sequence of strings).
PyStr(s) == [t |-> "str", v |-> s]

PyList(lines) == [t |-> "list", v |-> lines]

\* The Python value None.
PyNone == [t |-> "none", v |-> <<>>]

\* f'{x}' for a str or None: str(None) is 'None'.
FStr(x) == IF x.t = "none" THEN <<"None">> ELSE x.v

\* An exception raised by the call, in place of a value.
PyRaise(name) == [t |-> "raise", v |-> <<name>>]

Truthy(x) == x.v # <<>>

\* What a handler gives back: its value and the dispatches made through
\* traverse_element while computing it, in order.
Result(val, calls) == [val |-> val, calls |-> calls]

----------------------------------------------------------------------------
(* BaseRenderer helpers *)

get_smart_quotes_same(depth) == <<"LDQ", "RDQ">>

get_smart_quotes(depth) ==
    IF depth % 2 = 0 THEN <<"LDQ", "RDQ">> ELSE <<"LSQ", "RSQ">>

RECURSIVE IterText(_)
RECURSIVE IterTextKids(_)
IterTextKids(kids) ==
    IF kids = <<>> THEN <<>>
    ELSE IterText(Head(kids)) \o Head(kids).tail \o IterTextKids(Tail(kids))

IterText(e) == e.text \o IterTextKids(e.kids)

extract_plain_text(e) == Strip(IterText(e))

get_rend_class(e, default) == Get(e, "rend", default)

get_format_rend(e, format_name, default) ==
    Get(e, "rend-" \o format_name, default)

----------------------------------------------------------------------------
(* str.upper, str.split, html.escape and textwrap.fill on atom strings *)

\* The ASCII letters, in the order of their codes from 97 and from 65.
LowerCase == "abcdefghijklmnopqrstuvwxyz"

UpperCase == "ABCDEFGHIJKLMNOPQRSTUVWXYZ"

HexDigits == "0123456789ABCDEF"

\* The number a string of hexadecimal digits stands for.
RECURSIVE HexValue(_)
HexValue(h) ==
    IF Len(h) = 0 THEN 0
    ELSE 16 * HexValue(SubSeq(h, 1, Len(h) - 1))
         + (CHOOSE d \in 0..15 :
               SubSeq(HexDigits, d + 1, d + 1) = SubSeq(h, Len(h), Len(h)))

\* n in hexadecimal, with at least the given number of digits.
RECURSIVE HexOf(_, _)
HexOf(n, digits) ==
    IF n = 0 /\ digits <= 0 THEN ""
    ELSE HexOf(n \div 16, digits - 1)
         \o SubSeq(HexDigits, (n % 16) + 1, (n % 16) + 1)

\* ord() of a code-point atom, and the atom of the character chr(n), n
\* the code of a capital letter or of a character outside ASCII.
CodeOf(a) == HexValue(SubSeq(a, 3, Len(a)))

CharOf(n) ==
    IF n \in 65..90 THEN SubSeq(UpperCase, n - 64, n - 64)
    ELSE "U+" \o HexOf(n, 4)

\* str.upper() on the characters outside ASCII whose upper case is one
\* other character: <<first, last, step, delta>> says that the code
\* points first, first + step, ... last become the code point delta
\* further on.
UpperRanges ==
    {<<181, 181, 1, 743>>, <<224, 246, 1, -32>>, <<248, 254, 1, -32>>,
     <<255, 255, 1, 121>>, <<257, 303, 2, -1>>, <<305, 305, 1, -232>>,
     <<307, 311, 2, -1>>, <<314, 328, 2, -1>>, <<331, 375, 2, -1>>,
     <<378, 382, 2, -1>>, <<383, 383, 1, -300>>, <<384, 384, 1, 195>>,
     <<387, 389, 2, -1>>, <<392, 392, 1, -1>>, <<396, 396, 1, -1>>,
     <<402, 402, 1, -1>>, <<405, 405, 1, 97>>, <<409, 409, 1, -1>>,
     <<410, 410, 1, 163>>, <<414, 414, 1, 130>>, <<417, 421, 2, -1>>,
     <<424, 424, 1, -1>>, <<429, 429, 1, -1>>, <<432, 432, 1, -1>>,
     <<436, 438, 2, -1>>, <<441, 441, 1, -1>>, <<445, 445, 1, -1>>,
     <<447, 447, 1, 56>>, <<453, 453, 1, -1>>, <<454, 454, 1, -2>>,
     <<456, 456, 1, -1>>, <<457, 457, 1, -2>>, <<459, 459, 1, -1>>,
     <<460, 460, 1, -2>>, <<462, 476, 2, -1>>, <<477, 477, 1, -79>>,
     <<479, 495, 2, -1>>, <<498, 498, 1, -1>>, <<499, 499, 1, -2>>,
     <<501, 501, 1, -1>>, <<505, 543, 2, -1>>, <<547, 563, 2, -1>>,
     <<572, 572, 1, -1>>, <<575, 576, 1, 10815>>, <<578, 578, 1, -1>>,
     <<583, 591, 2, -1>>, <<592, 592, 1, 10783>>, <<593, 593, 1, 10780>>,
     <<594, 594, 1, 10782>>, <<595, 595, 1, -210>>, <<596, 596, 1, -206>>,
     <<598, 599, 1, -205>>, <<601, 601, 1, -202>>, <<603, 603, 1, -203>>,
     <<604, 604, 1, 42319>>, <<608, 608, 1, -205>>, <<609, 609, 1, 42315>>,
     <<611, 611, 1, -207>>, <<613, 613, 1, 42280>>, <<614, 614, 1, 42308>>,
     <<616, 616, 1, -209>>, <<617, 617, 1, -211>>, <<618, 618, 1, 42308>>,
     <<619, 619, 1, 10743>>, <<620, 620, 1, 42305>>, <<623, 623, 1, -211>>,
     <<625, 625, 1, 10749>>, <<626, 626, 1, -213>>, <<629, 629, 1, -214>>,
     <<637, 637, 1, 10727>>, <<640, 640, 1, -218>>, <<642, 642, 1, 42307>>,
     <<643, 643, 1, -218>>, <<647, 647, 1, 42282>>, <<648, 648, 1, -218>>,
     <<649, 649, 1, -69>>, <<650, 651, 1, -217>>, <<652, 652, 1, -71>>,
     <<658, 658, 1, -219>>, <<669, 669, 1, 42261>>, <<670, 670, 1, 42258>>,
     <<837, 837, 1, 84>>, <<881, 883, 2, -1>>, <<887, 887, 1, -1>>,
     <<891, 893, 1, 130>>, <<940, 940, 1, -38>>, <<941, 943, 1, -37>>,
     <<945, 961, 1, -32>>, <<962, 962, 1, -31>>, <<963, 971, 1, -32>>,
     <<972, 972, 1, -64>>, <<973, 974, 1, -63>>, <<976, 976, 1, -62>>,
     <<977, 977, 1, -57>>, <<981, 981, 1, -47>>, <<982, 982, 1, -54>>,
     <<983, 983, 1, -8>>, <<985, 1007, 2, -1>>, <<1008, 1008, 1, -86>>,
     <<1009, 1009, 1, -80>>, <<1010, 1010, 1, 7>>, <<1011, 1011, 1, -116>>,
     <<1013, 1013, 1, -96>>, <<1016, 1016, 1, -1>>, <<1019, 1019, 1, -1>>,
     <<1072, 1103, 1, -32>>, <<1104, 1119, 1, -80>>, <<1121, 1153, 2, -1>>,
     <<1163, 1215, 2, -1>>, <<1218, 1230, 2, -1>>, <<1231, 1231, 1, -15>>,
     <<1233, 1327, 2, -1>>, <<1377, 1414, 1, -48>>, <<4304, 4346, 1, 3008>>,
     <<4349, 4351, 1, 3008>>, <<5112, 5117, 1, -8>>,
     <<7296, 7296, 1, -6254>>, <<7297, 7297, 1, -6253>>,
     <<7298, 7298, 1, -6244>>, <<7299, 7300, 1, -6242>>,
     <<7301, 7301, 1, -6243>>, <<7302, 7302, 1, -6236>>,
     <<7303, 7303, 1, -6181>>, <<7304, 7304, 1, 35266>>,
     <<7545, 7545, 1, 35332>>, <<7549, 7549, 1, 3814>>,
     <<7566, 7566, 1, 35384>>, <<7681, 7829, 2, -1>>, <<7835, 7835, 1, -59>>,
     <<7841, 7935, 2, -1>>, <<7936, 7943, 1, 8>>, <<7952, 7957, 1, 8>>,
     <<7968, 7975, 1, 8>>, <<7984, 7991, 1, 8>>, <<8000, 8005, 1, 8>>,
     <<8017, 8023, 2, 8>>, <<8032, 8039, 1, 8>>, <<8048, 8049, 1, 74>>,
     <<8050, 8053, 1, 86>>, <<8054, 8055, 1, 100>>, <<8056, 8057, 1, 128>>,
     <<8058, 8059, 1, 112>>, <<8060, 8061, 1, 126>>, <<8112, 8113, 1, 8>>,
     <<8126, 8126, 1, -7205>>, <<8144, 8145, 1, 8>>, <<8160, 8161, 1, 8>>,
     <<8165, 8165, 1, 7>>, <<8526, 8526, 1, -28>>, <<8560, 8575, 1, -16>>,
     <<8580, 8580, 1, -1>>, <<9424, 9449, 1, -26>>, <<11312, 11359, 1, -48>>,
     <<11361, 11361, 1, -1>>, <<11365, 11365, 1, -10795>>,
     <<11366, 11366, 1, -10792>>, <<11368, 11372, 2, -1>>,
     <<11379, 11379, 1, -1>>, <<11382, 11382, 1, -1>>,
     <<11393, 11491, 2, -1>>, <<11500, 11502, 2, -1>>,
     <<11507, 11507, 1, -1>>, <<11520, 11557, 1, -7264>>,
     <<11559, 11559, 1, -7264>>, <<11565, 11565, 1, -7264>>,
     <<42561, 42605, 2, -1>>, <<42625, 42651, 2, -1>>,
     <<42787, 42799, 2, -1>>, <<42803, 42863, 2, -1>>,
     <<42874, 42876, 2, -1>>, <<42879, 42887, 2, -1>>,
     <<42892, 42892, 1, -1>>, <<42897, 42899, 2, -1>>,
     <<42900, 42900, 1, 48>>, <<42903, 42921, 2, -1>>,
     <<42933, 42947, 2, -1>>, <<42952, 42954, 2, -1>>,
     <<42961, 42961, 1, -1>>, <<42967, 42969, 2, -1>>,
     <<42998, 42998, 1, -1>>, <<43859, 43859, 1, -928>>,
     <<43888, 43967, 1, -38864>>, <<65345, 65370, 1, -32>>,
     <<66600, 66639, 1, -40>>, <<66776, 66811, 1, -40>>,
     <<66967, 66977, 1, -39>>, <<66979, 66993, 1, -39>>,
     <<66995, 67001, 1, -39>>, <<67003, 67004, 1, -39>>,
     <<68800, 68850, 1, -64>>, <<71872, 71903, 1, -32>>,
     <<93792, 93823, 1, -32>>, <<125218, 125251, 1, -34>>}

\* str.upper() on the characters whose upper case is more than one
\* character: the code point and the code points it becomes.
UpperSpecial ==
    {<<223, <<83, 83>>>>, <<329, <<700, 78>>>>, <<496, <<74, 780>>>>,
     <<912, <<921, 776, 769>>>>, <<944, <<933, 776, 769>>>>,
     <<1415, <<1333, 1362>>>>, <<7830, <<72, 817>>>>, <<7831, <<84, 776>>>>,
     <<7832, <<87, 778>>>>, <<7833, <<89, 778>>>>, <<7834, <<65, 702>>>>,
     <<8016, <<933, 787>>>>, <<8018, <<933, 787, 768>>>>,
     <<8020, <<933, 787, 769>>>>, <<8022, <<933, 787, 834>>>>,
     <<8064, <<7944, 921>>>>, <<8065, <<7945, 921>>>>,
     <<8066, <<7946, 921>>>>, <<8067, <<7947, 921>>>>,
     <<8068, <<7948, 921>>>>, <<8069, <<7949, 921>>>>,
     <<8070, <<7950, 921>>>>, <<8071, <<7951, 921>>>>,
     <<8072, <<7944, 921>>>>, <<8073, <<7945, 921>>>>,
     <<8074, <<7946, 921>>>>, <<8075, <<7947, 921>>>>,
     <<8076, <<7948, 921>>>>, <<8077, <<7949, 921>>>>,
     <<8078, <<7950, 921>>>>, <<8079, <<7951, 921>>>>,
     <<8080, <<7976, 921>>>>, <<8081, <<7977, 921>>>>,
     <<8082, <<7978, 921>>>>, <<8083, <<7979, 921>>>>,
     <<8084, <<7980, 921>>>>, <<8085, <<7981, 921>>>>,
     <<8086, <<7982, 921>>>>, <<8087, <<7983, 921>>>>,
     <<8088, <<7976, 921>>>>, <<8089, <<7977, 921>>>>,
     <<8090, <<7978, 921>>>>, <<8091, <<7979, 921>>>>,
     <<8092, <<7980, 921>>>>, <<8093, <<7981, 921>>>>,
     <<8094, <<7982, 921>>>>, <<8095, <<7983, 921>>>>,
     <<8096, <<8040, 921>>>>, <<8097, <<8041, 921>>>>,
     <<8098, <<8042, 921>>>>, <<8099, <<8043, 921>>>>,
     <<8100, <<8044, 921>>>>, <<8101, <<8045, 921>>>>,
     <<8102, <<8046, 921>>>>, <<8103, <<8047, 921>>>>,
     <<8104, <<8040, 921>>>>, <<8105, <<8041, 921>>>>,
     <<8106, <<8042, 921>>>>, <<8107, <<8043, 921>>>>,
     <<8108, <<8044, 921>>>>, <<8109, <<8045, 921>>>>,
     <<8110, <<8046, 921>>>>, <<8111, <<8047, 921>>>>,
     <<8114, <<8122, 921>>>>, <<8115, <<913, 921>>>>, <<8116, <<902, 921>>>>,
     <<8118, <<913, 834>>>>, <<8119, <<913, 834, 921>>>>,
     <<8124, <<913, 921>>>>, <<8130, <<8138, 921>>>>, <<8131, <<919, 921>>>>,
     <<8132, <<905, 921>>>>, <<8134, <<919, 834>>>>,
     <<8135, <<919, 834, 921>>>>, <<8140, <<919, 921>>>>,
     <<8146, <<921, 776, 768>>>>, <<8147, <<921, 776, 769>>>>,
     <<8150, <<921, 834>>>>, <<8151, <<921, 776, 834>>>>,
     <<8162, <<933, 776, 768>>>>, <<8163, <<933, 776, 769>>>>,
     <<8164, <<929, 787>>>>, <<8166, <<933, 834>>>>,
     <<8167, <<933, 776, 834>>>>, <<8178, <<8186, 921>>>>,
     <<8179, <<937, 921>>>>, <<8180, <<911, 921>>>>, <<8182, <<937, 834>>>>,
     <<8183, <<937, 834, 921>>>>, <<8188, <<937, 921>>>>,
     <<64256, <<70, 70>>>>, <<64257, <<70, 73>>>>, <<64258, <<70, 76>>>>,
     <<64259, <<70, 70, 73>>>>, <<64260, <<70, 70, 76>>>>,
     <<64261, <<83, 84>>>>, <<64262, <<83, 84>>>>, <<64275, <<1348, 1350>>>>,
     <<64276, <<1348, 1333>>>>, <<64277, <<1348, 1339>>>>,
     <<64278, <<1358, 1350>>>>, <<64279, <<1348, 1341>>>>}

\* The code points of chr(n).upper() for n outside ASCII.
UpperCode(n) ==
    IF \E x \in UpperSpecial : x[1] = n
    THEN (CHOOSE x \in UpperSpecial : x[1] = n)[2]
    ELSE IF \E g \in UpperRanges :
                n \in g[1]..g[2] /\ (n - g[1]) % g[3] = 0
    THEN <<n + (CHOOSE g \in UpperRanges :
                   n \in g[1]..g[2] /\ (n - g[1]) % g[3] = 0)[4]>>
    ELSE <<n>>

\* str.upper() on the ASCII letters, one character each.
ToUpper ==
    [ch \in {SubSeq(LowerCase, i, i) : i \in 1..26} |->
        LET i == CHOOSE k \in 1..26 : SubSeq(LowerCase, k, k) = ch
        IN  SubSeq(UpperCase, i, i)]

\* ch.upper() for one ASCII character.
UpperChar(ch) == IF ch \in DOMAIN ToUpper THEN ToUpper[ch] ELSE ch

\* The ASCII text of an atom with every character upper-cased.
RECURSIVE UpperText(_)
UpperText(a) ==
    IF Len(a) = 0 THEN a
    ELSE UpperChar(SubSeq(a, 1, 1)) \o UpperText(SubSeq(a, 2, Len(a)))

\* str.upper() on one atom: the atoms it becomes.  A glyph has no case.
UpperAtom(a) ==
    IF a \in Glyphs THEN <<a>>
    ELSE IF IsCodePoint(a)
    THEN [i \in 1..Len(UpperCode(CodeOf(a))) |->
             CharOf(UpperCode(CodeOf(a))[i])]
    ELSE <<UpperText(a)>>

Upper(s) == Concat([i \in 1..Len(s) |-> UpperAtom(s[i])])

\* html.escape on one character: & < > " ' are replaced.
EscapeChar(ch) ==
    CASE ch = "&" -> "&amp;"
      [] ch = "<" -> "&lt;"
      [] ch = ">" -> "&gt;"
      [] ch = "\"" -> "&quot;"
      [] ch = "'" -> "&#x27;"
      [] OTHER -> ch

\* html.escape on the text of one atom, character by character.
RECURSIVE EscapeAtom(_)
EscapeAtom(a) ==
    IF Len(a) = 0 THEN a
    ELSE EscapeChar(SubSeq(a, 1, 1)) \o EscapeAtom(SubSeq(a, 2, Len(a)))

Escape(s) == [i \in 1..Len(s) |-> EscapeAtom(s[i])]

\* The maximal runs of atoms of the set space and of other atoms, in
\* order.
RECURSIVE Chunks(_, _)
Chunks(s, space) ==
    IF s = <<>> THEN <<>>
    ELSE LET rest == Chunks(Tail(s), space)
         IN  IF /\ rest # <<>>
                /\ (Head(rest)[1] \in space) = (Head(s) \in space)
             THEN <<(<<Head(s)>> \o Head(rest))>> \o Tail(rest)
             ELSE <<(<<Head(s)>>)>> \o rest

\* str.split(): the runs that are not white space.
Split(s) ==
    SelectSeq(Chunks(s, WhiteSpace), LAMBDA ch : ch[1] \notin WhiteSpace)

\* str.split('\n')
RECURSIVE SplitLines(_)
SplitLines(s) ==
    IF \A i \in 1..Len(s) : s[i] # "\n" THEN <<s>>
    ELSE LET k == CHOOSE i \in 1..Len(s) :
                     s[i] = "\n" /\ \A j \in 1..(i - 1) : s[j] # "\n"
         IN  <<SubSeq(s, 1, k - 1)>> \o SplitLines(SubSeq(s, k + 1, Len(s)))

\* str.expandtabs(8) from column col on: a tab becomes the spaces up to
\* the next multiple of 8; a newline or a carriage return starts a line.
RECURSIVE ExpandTabs(_, _)
ExpandTabs(s, col) ==
    IF s = <<>> THEN <<>>
    ELSE IF Head(s) = "\t"
    THEN [i \in 1..(8 - (col % 8)) |-> " "] \o ExpandTabs(Tail(s), 0)
    ELSE IF Head(s) \in {"\n", "\r"}
    THEN <<Head(s)>> \o ExpandTabs(Tail(s), 0)
    ELSE <<Head(s)>> \o ExpandTabs(Tail(s), col + AtomLen(Head(s)))

\* The white space of textwrap: '\t\n\x0b\x0c\r '.
WrapSpace == {" ", "\t", "\n", "\r", "\f", "U+000B"}

\* TextWrapper._munge_whitespace: the tabs are expanded and every
\* white-space character of textwrap becomes a space.
MungeWhitespace(s) ==
    LET expanded == ExpandTabs(s, 0)
    IN  [i \in 1..Len(expanded) |->
            IF expanded[i] \in WrapSpace THEN " " ELSE expanded[i]]

\* chunk.strip() == ''
IsBlank(chunk) == \A i \in 1..Len(chunk) : chunk[i] \in WhiteSpace

\* The number of leading chunks that fit in width, taken greedily.
RECURSIVE TakeFit(_, _)
TakeFit(chunks, width) ==
    IF chunks # <<>> /\ StrLen(Head(chunks)) <= width
    THEN 1 + TakeFit(Tail(chunks), width - StrLen(Head(chunks)))
    ELSE 0

\* The loop of TextWrapper._wrap_chunks with break_long_words = False,
\* drop_whitespace = True, max_lines = None: the lines, from those made.
RECURSIVE WrapLines(_, _, _, _, _)
WrapLines(chunks, width, initial_indent, subsequent_indent, lines) ==
    IF chunks = <<>> THEN lines
    ELSE
      LET indent == IF lines # <<>> THEN subsequent_indent
                    ELSE initial_indent
          w == width - StrLen(indent)
          ch1 == IF IsBlank(Head(chunks)) /\ lines # <<>>
                 THEN Tail(chunks) ELSE chunks
          n == TakeFit(ch1, w)
          cur0 == SubSeq(ch1, 1, n)
          rest0 == SubSeq(ch1, n + 1, Len(ch1))
          long == rest0 # <<>> /\ StrLen(Head(rest0)) > w /\ cur0 = <<>>
          cur1 == IF long THEN <<Head(rest0)>> ELSE cur0
          rest1 == IF long THEN Tail(rest0) ELSE rest0
          cur2 == IF cur1 # <<>> /\ IsBlank(cur1[Len(cur1)])
                  THEN SubSeq(cur1, 1, Len(cur1) - 1) ELSE cur1
          out == IF cur2 # <<>>
                 THEN Append(lines, indent \o Concat(cur2)) ELSE lines
      IN  WrapLines(rest1, width, initial_indent, subsequent_indent, out)

\* TextWrapper._wrap_chunks: the list of lines, or ValueError for a width
\* that is not positive.
WrapChunks(chunks, width, initial_indent, subsequent_indent) ==
    IF width <= 0 THEN PyRaise("ValueError")
    ELSE PyList(WrapLines(chunks, width, initial_indent, subsequent_indent,
                          <<>>))

\* textwrap.fill(text, width, initial_indent, subsequent_indent,
\*               break_long_words=False, break_on_hyphens=False)
\* "\n".join(lines) of the lines wrap() returned, unless it raised.
JoinWrapped(wrapped) ==
    IF wrapped.t = "raise" THEN wrapped ELSE PyStr(Join(<<"\n">>, wrapped.v))

Fill(text, width, initial_indent, subsequent_indent) ==
    JoinWrapped(WrapChunks(Chunks(MungeWhitespace(text), {" "}), width,
                           initial_indent, subsequent_indent))

----------------------------------------------------------------------------
(* TEITraverser.traverse_element and BaseRenderer.render_children.  A      *)
(* renderer r is a record: [fmt |-> "text", line_width], [fmt |-> "html"]  *)
(* or [fmt |-> "epub", xhtml |-> TRUE].  An element is handed over as     *)
(* the record e and its place at = [root, path] in the tree it belongs     *)
(* to: path holds the indices of the children leading from root to it.     *)

RECURSIVE TraverseElement(_, _, _, _)

Root(e) == [root |-> e, path |-> <<>>]

Child(at, i) == [at EXCEPT !.path = Append(@, i)]

RECURSIVE NodeAt(_, _)
NodeAt(e, path) ==
    IF path = <<>> THEN e ELSE NodeAt(e.kids[Head(path)], Tail(path))

GetParent(at) == NodeAt(at.root, SubSeq(at.path, 1, Len(at.path) - 1))

\* The result of a call, with the call put in front of its log.
Logged(out, call) == [val |-> out.val, calls |-> <<call>> \o out.calls]

\* if result: results.append(result), in front of the results that follow.
\* A call that raises ends the loop: the exception is the last of the
\* values and nothing that follows is called.
KeepTruthy(one, more) ==
    IF one.val.t = "raise" THEN [vals |-> <<one.val>>, calls |-> one.calls]
    ELSE [vals |-> (IF Truthy(one.val) THEN <<one.val>> ELSE <<>>)
                   \o more.vals,
          calls |-> one.calls \o more.calls]

\* The results of a loop over the children, one call after the other.
RECURSIVE Gather(_)
Gather(each) ==
    IF each = <<>> THEN [vals |-> <<>>, calls |-> <<>>]
    ELSE KeepTruthy(Head(each), Gather(Tail(each)))

\* The loop was left by an exception.
Raising(vals) == vals # <<>> /\ vals[Len(vals)].t = "raise"

\* What the handler returns after the loop: its value, or the exception
\* that went through it.
Returned(children, out) ==
    IF Raising(children.vals)
    THEN Result(children.vals[Len(children.vals)], children.calls)
    ELSE Result(out, children.calls)

\* The values of a list of results, and the dispatches made for them.
RECURSIVE RenderEach(_, _, _, _, _)
RenderEach(r, kids, at, i, c) ==
    IF i > Len(kids) THEN [vals |-> <<>>, calls |-> <<>>]
    ELSE KeepTruthy(TraverseElement(r, kids[i], Child(at, i), c[i]),
                    RenderEach(r, kids, at, i + 1, c))

\* BaseRenderer.render_children with no skip_tags: every child is
\* traversed under the same context and the non-empty results are kept.
render_children(r, e, at, c) ==
    RenderEach(r, e.kids, at, 1, [i \in 1..Len(e.kids) |-> c])

\* for x in results: lines.extend(x) if isinstance(x, list) else
\* lines.append(x)
RECURSIVE ExtendOrAppend(_)
ExtendOrAppend(vals) ==
    IF vals = <<>> THEN <<>>
    ELSE (IF Head(vals).t = "list" THEN Head(vals).v ELSE <<Head(vals).v>>)
         \o ExtendOrAppend(Tail(vals))

FindAll(e, tag) == SelectSeq(e.kids, LAMBDA k : strip_namespace(k.tag) = tag)

HasChild(e, tag) == \E i \in 1..Len(e.kids) : e.kids[i].tag = tag

Find(e, tag) == Head(FindAll(e, tag))

----------------------------------------------------------------------------
(* TextRenderer *)

RECURSIVE Text_extract_text_with_emphasis(_, _)
RECURSIVE Text_extract_children(_, _)

Text_extract_child(r, child, c) ==
    LET tag == strip_namespace(child.tag)
    IN  CASE tag = "lb" -> <<"\n">>
          [] tag = "quote" ->
                LET child_context == with_deeper_quote(c)
                    child_text ==
                        Text_extract_text_with_emphasis(child, child_context)
                    q == get_smart_quotes(c.quote_depth)
                IN  <<q[1]>> \o child_text \o <<q[2]>>
          [] tag \in {"emph", "hi"} ->
                <<"_">> \o extract_plain_text(child) \o <<"_">>
          [] tag = "note" ->
                <<" ", "[">> \o extract_plain_text(child) \o <<"]">>
          [] tag = "ref" -> extract_plain_text(child)
          [] tag \in {"title", "foreign"} ->
                <<"_">> \o extract_plain_text(child) \o <<"_">>
          [] OTHER -> extract_plain_text(child)

Text_extract_children(kids, c) ==
    IF kids = <<>> THEN <<>>
    ELSE Text_extract_child("text", Head(kids), c) \o Head(kids).tail
         \o Text_extract_children(Tail(kids), c)

Text_extract_text_with_emphasis(e, c) ==
    e.text \o Text_extract_children(e.kids, c)

\* re.sub(r'_([^_]+)_', r'\1', text): the leftmost pairs of underscores
\* with something other than underscores between them are removed.
RECURSIVE StripEmphasis(_)
StripEmphasis(s) ==
    IF s = <<>> THEN <<>>
    ELSE IF Head(s) = "_" /\ Len(s) >= 3 /\ s[2] # "_"
            /\ \E j \in 3..Len(s) : s[j] = "_"
         THEN LET j == CHOOSE k \in 3..Len(s) :
                          s[k] = "_" /\ \A m \in 3..(k - 1) : s[m] # "_"
              IN  SubSeq(s, 2, j - 1) \o StripEmphasis(SubSeq(s, j + 1, Len(s)))
         ELSE <<Head(s)>> \o StripEmphasis(Tail(s))

Text_visual_length(text) == StrLen(StripEmphasis(text))

Text_render_head(r, e, at, c) ==
    LET heading_text == Strip(extract_plain_text(e))
        lines ==
            CASE c.parent_tag = "body" ->
                    <<<<>>, <<>>, <<>>, Upper(heading_text), <<>>, <<>>>>
              [] c.parent_tag = "front" ->
                    <<heading_text, Rep(<<"=">>, StrLen(heading_text)), <<>>>>
              [] c.parent_tag = "back" -> <<Upper(heading_text), <<>>>>
              [] c.parent_tag = "div" -> <<Upper(heading_text), <<>>, <<>>>>
              [] OTHER -> <<>>
    IN  IF heading_text = <<>> THEN Result(PyList(<<>>), <<>>)
        ELSE Result(PyList(lines), <<>>)

\* lines = wrapped.split('\n'); lines.append(''), unless fill raised.
SplitWrapped(wrapped) ==
    IF wrapped.t = "raise" THEN wrapped
    ELSE PyList(Append(SplitLines(wrapped.v), <<>>))

\* The lines with the indent put in front of each.
Indented(indent, lines) ==
    IF lines.t = "raise" THEN lines
    ELSE PyList([i \in DOMAIN lines.v |->
                    IF i = Len(lines.v) THEN <<>> ELSE indent \o lines.v[i]])

\* Wrapping at the full width, the indent put in front afterwards.
Text_wrap_full_width(r, text, c) ==
    IF text = <<>> THEN PyList(<<>>)
    ELSE Indented(current_indent(c),
                  SplitWrapped(Fill(Join(<<" ">>, Split(text)), r.line_width,
                                    <<>>, <<>>)))

\* The wrapping shared by render_paragraph and the fallback of render_quote.
Text_wrap_paragraph(r, text, c) ==
    IF text = <<>> THEN PyList(<<>>)
    ELSE SplitWrapped(Fill(Join(<<" ">>, Split(text)), r.line_width,
                           current_indent(c), current_indent(c)))

Text_render_paragraph(r, e, at, c) ==
    Result(Text_wrap_paragraph(
               r, Strip(Text_extract_text_with_emphasis(e, c)), c), <<>>)

TextBlockTags == {"p", "lg", "list", "table", "figure", "div", "quote"}

Text_render_quote(r, e, at, c) ==
    IF is_inline_parent(c) THEN Result(PyList(<<>>), <<>>)
    ELSE
      LET child_context == with_deeper_block(with_indent(c, 1))
          isBlock(k) == strip_namespace(k.tag) \in TextBlockTags
          \* the block children are traversed, the others passed over
          each == [i \in 1..Len(e.kids) |->
                     IF isBlock(e.kids[i])
                     THEN TraverseElement(r, e.kids[i], Child(at, i),
                              with_parent(child_context,
                                          strip_namespace(e.kids[i].tag), ""))
                     ELSE Result(PyList(<<>>), <<>>)]
          children == Gather(each)
      IN  IF \E i \in 1..Len(e.kids) : isBlock(e.kids[i])
          THEN Returned(children, PyList(ExtendOrAppend(children.vals)))
          ELSE Result(Text_wrap_paragraph(
                          r, Strip(Text_extract_text_with_emphasis(
                                       e, child_context)), child_context),
                      <<>>)

Text_format_verse_line(r, line_text, line_rend, poem_rend, c) ==
    CASE line_rend = "center" ->
            Spaces((r.line_width - Text_visual_length(line_text)) \div 2)
            \o line_text
      [] line_rend = "indent" -> current_indent(c) \o Spaces(6) \o line_text
      [] line_rend = "indent2" -> current_indent(c) \o Spaces(8) \o line_text
      [] line_rend = "indent3" -> current_indent(c) \o Spaces(10) \o line_text
      [] OTHER -> current_indent(c) \o Spaces(4) \o line_text

Max(S) == CHOOSE x \in S : \A y \in S : y <= x

Text_render_stanza(r, stanza_elem, c) ==
    LET stanza_rend == Get(stanza_elem, "rend", "")
        ls == FindAll(stanza_elem, "l")
        line_rends == [i \in 1..Len(ls) |-> Get(ls[i], "rend", "")]
        raw == [i \in 1..Len(ls) |->
                   Strip(Text_extract_text_with_emphasis(ls[i], c))]
        line_texts ==
            [i \in 1..Len(ls) |->
                CASE line_rends[i] = "center" ->
                        Spaces((r.line_width - Text_visual_length(raw[i]))
                               \div 2) \o raw[i]
                  [] line_rends[i] = "indent" -> Spaces(2) \o raw[i]
                  [] line_rends[i] = "indent2" -> Spaces(4) \o raw[i]
                  [] line_rends[i] = "indent3" -> Spaces(6) \o raw[i]
                  [] OTHER -> raw[i]]
        max_len == Max({Text_visual_length(line_texts[i]) :
                            i \in 1..Len(ls)})
        block_padding == (r.line_width - max_len) \div 2
        stanza_lines ==
            IF stanza_rend = "center" /\ Len(ls) > 0
            THEN [i \in 1..Len(ls) |-> Spaces(block_padding) \o line_texts[i]]
            ELSE [i \in 1..Len(ls) |->
                     IF line_rends[i] = "center" THEN line_texts[i]
                     ELSE current_indent(c) \o Spaces(4) \o line_texts[i]]
    IN  Append(stanza_lines, <<>>)

Text_render_line_group(r, e, at, c) ==
    LET rend == get_rend_class(e, "")
        child_context == with_parent(c, "lg", rend)
        each ==
            [i \in 1..Len(e.kids) |->
                LET child == e.kids[i]
                    child_tag == strip_namespace(child.tag)
                IN  CASE child_tag = "head" ->
                            LET title == Strip(extract_plain_text(child))
                                padding ==
                                    (r.line_width - StrLen(title)) \div 2
                            IN  Result(PyList(
                                    IF title = <<>> THEN <<>>
                                    ELSE IF rend = "center"
                                    THEN <<Spaces(padding) \o Upper(title),
                                           <<>>>>
                                    ELSE <<current_indent(c) \o Spaces(4)
                                             \o Upper(title), <<>>>>), <<>>)
                      [] child_tag = "lg" ->
                            Result(PyList(Text_render_stanza(r, child, c)),
                                   <<>>)
                      [] child_tag = "l" ->
                            Result(PyList(<<Text_format_verse_line(
                                r, Strip(Text_extract_text_with_emphasis(
                                             child, c)),
                                Get(child, "rend", ""), rend, c)>>), <<>>)
                      [] OTHER ->
                            TraverseElement(r, child, Child(at, i),
                                            child_context)]
        children == Gather(each)
    IN  Returned(children,
                 PyList(Append(ExtendOrAppend(children.vals), <<>>)))

Text_render_list(r, e, at, c) ==
    LET child_context == with_parent(c, "list", "")
        item_context == with_parent(child_context, "item", "")
        items == FindAll(e, "item")
        indent == current_indent(c)
        texts == [i \in 1..Len(items) |->
                     Strip(Text_extract_text_with_emphasis(items[i],
                                                           item_context))]
        shown == SelectSeq(texts, LAMBDA t : t # <<>>)
        wrapped == [i \in 1..Len(shown) |->
                       Fill(shown[i], r.line_width,
                            indent \o <<" ", " ", "BULLET", " ">>,
                            indent \o Spaces(4))]
        lines == [i \in 1..Len(shown) |-> wrapped[i].v]
    IN  IF shown # <<>> /\ wrapped[1].t = "raise"
        THEN Result(wrapped[1], <<>>)
        ELSE Result(PyList(Append(lines, <<>>)), <<>>)

LJust(s, width) == s \o Spaces(width - StrLen(s))

Text_render_table(r, e, at, c) ==
    LET rows == FindAll(e, "row")
        cellsOf(row) ==
            LET cs == FindAll(row, "cell")
            IN  [j \in 1..Len(cs) |-> Strip(extract_plain_text(cs[j]))]
        all == [i \in 1..Len(rows) |-> cellsOf(rows[i])]
        rows_data == SelectSeq(all, LAMBDA cells : cells # <<>>)
        num_cols == Max({Len(rows_data[i]) : i \in 1..Len(rows_data)})
        col_widths ==
            [j \in 1..num_cols |->
                Max({0} \cup {StrLen(rows_data[i][j]) :
                                i \in {k \in 1..Len(rows_data) :
                                          j <= Len(rows_data[k])}})]
        indent == current_indent(c)
        lines ==
            [i \in 1..Len(rows_data) |->
                indent \o Spaces(2)
                \o Join(Spaces(2),
                        [j \in 1..Len(rows_data[i]) |->
                            LJust(rows_data[i][j], col_widths[j])])]
    IN  Result(PyList(Append(IF rows_data # <<>> THEN lines ELSE <<>>,
                             <<>>)), <<>>)

Text_render_figure(r, e, at, c) ==
    LET caption == IF HasChild(e, "head")
                   THEN Strip(extract_plain_text(Find(e, "head")))
                   ELSE <<>>
        indent == current_indent(c)
    IN  IF caption # <<>>
        THEN Result(SplitWrapped(
                        Fill(<<"[Illustration:", " ">> \o caption \o <<"]">>,
                             r.line_width, indent, indent)), <<>>)
        ELSE Result(PyList(<<indent \o <<"[Illustration]">>, <<>>>>), <<>>)

Stars == <<"*", " ", " ", " ", " ", " ", " ", " ", "*", " ", " ", " ", " ",
           " ", " ", " ", "*", " ", " ", " ", " ", " ", " ", " ", "*", " ",
           " ", " ", " ", " ", " ", " ", "*">>

Text_render_milestone(r, e, at, c) ==
    LET rend == get_rend_class(e, "space")
        padding == (r.line_width - StrLen(Stars)) \div 2
    IN  IF rend = "stars"
        THEN Result(PyList(<<Spaces(padding) \o Stars, <<>>>>), <<>>)
        ELSE Result(PyList(<<<<>>, <<>>>>), <<>>)

Text_render_div(r, e, at, c) ==
    LET child_context == with_parent(c, "div", "")
        children == render_children(r, e, at, child_context)
    IN  Returned(children, PyList(ExtendOrAppend(children.vals)))

Text_render_element(r, e, tag, at, c) ==
    CASE tag = "div" -> Text_render_div(r, e, at, c)
      [] tag = "head" -> Text_render_head(r, e, at, c)
      [] tag = "p" -> Text_render_paragraph(r, e, at, c)
      [] tag = "quote" -> Text_render_quote(r, e, at, c)
      [] tag = "lg" -> Text_render_line_group(r, e, at, c)
      [] tag = "list" -> Text_render_list(r, e, at, c)
      [] tag = "table" -> Text_render_table(r, e, at, c)
      [] tag = "figure" -> Text_render_figure(r, e, at, c)
      [] tag = "milestone" -> Text_render_milestone(r, e, at, c)
      [] OTHER -> Result(PyList(<<>>), <<>>)

----------------------------------------------------------------------------
(* HTMLRenderer.  A string of the output is a sequence of atoms, as for    *)
(* the text renderer; '\n'.join(parts) puts the atom "\n" between parts.   *)

\* The value of an attribute as part of a string ('' adds nothing).
A(value) == IF value = "" THEN <<>> ELSE <<value>>

XmlId == "{http://www.w3.org/XML/1998/namespace}id"

\* html.escape applied twice in strict mode.
HTML_text_twice(c, text) == IF c.xhtml THEN Escape(Escape(text)) ELSE text

\* html.escape(text) if context.xhtml else text
HTML_text(c, text) == IF c.xhtml THEN Escape(text) ELSE text

UrlPrefixes == {"#", "http://", "https://", "//"}

HTML_resolve_prefix_only(c, target) ==
    IF \E pre \in UrlPrefixes : StartsWith(target, pre)
    THEN target ELSE <<"#">> \o target

\* The href of a <ref>, lines 480-487 of render_text_content.
HTML_resolve_target(c, target) ==
    LET marked == \E pre \in UrlPrefixes : StartsWith(target, pre)
    IN  IF IdMapTruthy(c) /\ ~marked
        THEN IF target \in DOMAIN c.id_map[1]
             THEN c.id_map[1][target] \o <<"#">> \o target
             ELSE <<"#">> \o target
        ELSE IF ~marked THEN <<"#">> \o target
        ELSE target

RECURSIVE HTML_render_text_content(_, _)
RECURSIVE HTML_render_text_children(_, _)

HTML_render_text_child(child, c) ==
    LET tag == strip_namespace(child.tag)
        child_text == HTML_text(c, extract_plain_text(child))
    IN  CASE tag = "lb" -> IF c.xhtml THEN <<"<br/>">> ELSE <<"<br>">>
          [] tag = "quote" ->
                LET child_context == with_deeper_quote(c)
                    inner == HTML_render_text_content(child, child_context)
                    q == get_smart_quotes(c.quote_depth)
                IN  <<q[1]>> \o inner \o <<q[2]>>
          [] tag = "hi" ->
                LET rend == Get(child, "rend", "italic")
                IN  CASE rend = "italic" ->
                            <<"<i>">> \o child_text \o <<"</i>">>
                      [] rend = "bold" ->
                            <<"<b>">> \o child_text \o <<"</b>">>
                      [] OTHER ->
                            <<"<span class=\"">> \o A(rend) \o <<"\">">>
                            \o child_text \o <<"</span>">>
          [] tag = "emph" -> <<"<em>">> \o child_text \o <<"</em>">>
          [] tag = "ref" ->
                <<"<a href=\"">>
                \o HTML_resolve_target(c, Get(child, "target", <<"#">>))
                \o <<"\">">> \o child_text \o <<"</a>">>
          [] tag = "note" -> <<"<sup>[">> \o child_text \o <<"]</sup>">>
          [] tag = "foreign" -> <<"<i>">> \o child_text \o <<"</i>">>
          [] tag = "title" -> <<"<i>">> \o child_text \o <<"</i>">>
          [] OTHER -> child_text

HTML_render_text_children(kids, c) ==
    IF kids = <<>> THEN <<>>
    ELSE HTML_render_text_child(Head(kids), c)
         \o HTML_text(c, Head(kids).tail)
         \o HTML_render_text_children(Tail(kids), c)

HTML_render_text_content(e, c) ==
    HTML_text(c, e.text) \o HTML_render_text_children(e.kids, c)

Vals(results) == [i \in 1..Len(results) |-> results[i].v]

HTML_render_div(r, e, at, c) ==
    LET div_type == Get(e, "type", "")
        div_id == Get(e, XmlId, "")
        open ==
            CASE div_id # "" /\ div_type # "" ->
                    <<"<div id=\"", div_id, "\" class=\"", div_type, "\">">>
              [] div_id # "" /\ div_type = "" ->
                    <<"<div id=\"", div_id, "\">">>
              [] div_id = "" /\ div_type # "" ->
                    <<"<div class=\"", div_type, "\">">>
              [] OTHER -> <<"<div>">>
        child_context == with_parent(c, "div", div_type)
        children == render_children(r, e, at, child_context)
    IN  Result(PyStr(Join(<<"\n">>,
                          <<open>> \o Vals(children.vals)
                          \o <<(<<"</div>">>)>>)),
               children.calls)

HTML_render_head(r, e, at, c) ==
    IF c.parent_tag \in {"div", "front", "back", "body"}
    THEN IF at.path = <<>>
         THEN Result(PyRaise("AttributeError"), <<>>)
         ELSE LET div_id == Get(GetParent(at), XmlId, "")
              IN  IF div_id # ""
                  THEN Result(PyStr(<<"<h2 id=\"", div_id, "\">">>
                                    \o HTML_render_text_content(e, c)
                                    \o <<"</h2>">>), <<>>)
                  ELSE Result(PyStr(<<"<h2>">>
                                    \o HTML_render_text_content(e, c)
                                    \o <<"</h2>">>), <<>>)
    ELSE Result(PyStr(<<>>), <<>>)

HTML_render_paragraph(r, e, at, c) ==
    LET rend == get_rend_class(e, "")
        child_context == with_parent(c, "p", rend)
        content == HTML_render_text_content(e, child_context)
    IN  IF rend # ""
        THEN Result(PyStr(<<"<p class=\"", rend, "\">">> \o content
                          \o <<"</p>">>), <<>>)
        ELSE Result(PyStr(<<"<p>">> \o content \o <<"</p>">>), <<>>)

\* The list of render_quote with one more tag in it.
HTMLBlockTagsWithSeg ==
    {"p", "lg", "list", "table", "figure", "div", "quote", "signed", "seg"}

HTMLBlockTags ==
    {"p", "lg", "list", "table", "figure", "div", "quote", "signed"}

HTML_render_quote(r, e, at, c) ==
    IF is_inline_parent(c)
    THEN LET child_context == with_deeper_quote(c)
             content == HTML_render_text_content(e, child_context)
             q == get_smart_quotes(c.quote_depth)
         IN  Result(PyStr(<<q[1]>> \o content \o <<q[2]>>), <<>>)
    ELSE
      LET isBlock(k) == strip_namespace(k.tag) \in HTMLBlockTags
          child_context == with_deeper_block(c)
          each == [i \in 1..Len(e.kids) |->
                     IF isBlock(e.kids[i])
                     THEN TraverseElement(r, e.kids[i], Child(at, i),
                              with_parent(child_context,
                                          strip_namespace(e.kids[i].tag),
                                          Get(e.kids[i], "rend", "")))
                     ELSE Result(PyStr(<<>>), <<>>)]
          kept == SelectSeq(each, LAMBDA x : Truthy(x.val))
          inner == Join(<<"\n">>, [i \in 1..Len(kept) |-> kept[i].val.v])
      IN  IF \E i \in 1..Len(e.kids) : isBlock(e.kids[i])
          THEN Result(PyStr(<<"<blockquote>", "\n">> \o inner
                            \o <<"\n", "</blockquote>">>),
                      Concat([i \in 1..Len(each) |-> each[i].calls]))
          ELSE Result(PyStr(<<"<blockquote><p>">>
                            \o HTML_render_text_content(
                                   e, with_parent(c, "quote", ""))
                            \o <<"</p></blockquote>">>), <<>>)

\* for line in result.split('\n'): parts.append(pad + line)
PadLines(pad, text) ==
    LET ls == SplitLines(text)
    IN  [i \in 1..Len(ls) |-> Spaces(pad) \o ls[i]]

HTML_line(pad, e, c) ==
    LET line_rend == Get(e, "rend", "")
    IN  Spaces(pad)
        \o (IF line_rend # "" THEN <<"<div class=\"line ", line_rend, "\">">>
            ELSE <<"<div class=\"line\">">>)
        \o HTML_render_text_content(e, c) \o <<"</div>">>

\* The parts of a nested stanza, lines 284-305 of render_line_group.
HTML_render_stanza(r, child, at, child_context) ==
    LET stanza_context == with_parent(child_context, "lg", "")
        each ==
            [j \in 1..Len(child.kids) |->
                IF strip_namespace(child.kids[j].tag) = "l"
                THEN [parts |-> <<HTML_line(4, child.kids[j],
                                            stanza_context)>>,
                      calls |-> <<>>]
                ELSE LET one == TraverseElement(r, child.kids[j],
                                                Child(at, j), stanza_context)
                     IN  [parts |-> IF Truthy(one.val)
                                    THEN PadLines(4, one.val.v) ELSE <<>>,
                          calls |-> one.calls]]
    IN  [parts |-> <<(Spaces(2) \o <<"<div class=\"stanza\">">>)>>
                   \o Concat([j \in 1..Len(each) |-> each[j].parts])
                   \o <<(Spaces(2) \o <<"</div>">>)>>,
         calls |-> Concat([j \in 1..Len(each) |-> each[j].calls])]

HTML_render_line_group(r, e, at, c) ==
    LET rend == get_rend_class(e, "")
        open == IF rend # "" THEN <<"<div class=\"poem ", rend, "\">">>
                ELSE <<"<div class=\"poem\">">>
        child_context == with_parent(c, "lg", rend)
        each ==
            [i \in 1..Len(e.kids) |->
                LET child == e.kids[i]
                    child_tag == strip_namespace(child.tag)
                IN  CASE child_tag = "head" ->
                            [parts |-> <<(Spaces(2)
                                \o <<"<div class=\"poem-title\">">>
                                \o HTML_render_text_content(child,
                                                            child_context)
                                \o <<"</div>">>)>>,
                             calls |-> <<>>]
                      [] child_tag = "lg" ->
                            HTML_render_stanza(r, child, Child(at, i),
                                               child_context)
                      [] child_tag = "l" ->
                            [parts |-> <<HTML_line(2, child, child_context)>>,
                             calls |-> <<>>]
                      [] OTHER ->
                            LET one == TraverseElement(r, child, Child(at, i),
                                                       child_context)
                            IN  [parts |-> IF Truthy(one.val)
                                           THEN PadLines(2, one.val.v)
                                           ELSE <<>>,
                                 calls |-> one.calls]]
    IN  Result(PyStr(Join(<<"\n">>,
                          <<open>>
                          \o Concat([i \in 1..Len(each) |-> each[i].parts])
                          \o <<(<<"</div>">>)>>)),
               Concat([i \in 1..Len(each) |-> each[i].calls]))

HTML_render_list(r, e, at, c) ==
    LET child_context == with_parent(c, "list", "")
        item_context == with_parent(child_context, "item", "")
        found == FindAll(e, "item")
        items == [i \in 1..Len(found) |->
                     Spaces(2) \o <<"<li>">>
                     \o HTML_render_text_content(found[i], item_context)
                     \o <<"</li>">>]
    IN  Result(PyStr(<<"<ul>", "\n">> \o Join(<<"\n">>, items)
                     \o <<"\n", "</ul>">>), <<>>)

HTML_render_table(r, e, at, c) ==
    LET child_context == with_parent(c, "table", "")
        row_context == with_parent(child_context, "row", "")
        cell_context == with_parent(row_context, "cell", "")
        found == FindAll(e, "row")
        cellsOf(row) ==
            LET cs == FindAll(row, "cell")
            IN  [j \in 1..Len(cs) |->
                    LET cell_tag == IF Get(cs[j], "role", "") = "label"
                                    THEN "th" ELSE "td"
                    IN  Spaces(4) \o <<"<", cell_tag, ">">>
                        \o HTML_render_text_content(cs[j], cell_context)
                        \o <<"</", cell_tag, ">">>]
        rows == [i \in 1..Len(found) |->
                    Spaces(2) \o <<"<tr>", "\n">>
                    \o Join(<<"\n">>, cellsOf(found[i]))
                    \o <<"\n">> \o Spaces(2) \o <<"</tr>">>]
    IN  Result(PyStr(<<"<table>", "\n">> \o Join(<<"\n">>, rows)
                     \o <<"\n", "</table>">>), <<>>)

HTML_render_figure(r, e, at, c) ==
    LET hasGraphic == HasChild(e, "graphic")
        width == IF hasGraphic THEN Get(Find(e, "graphic"), "width", "")
                 ELSE ""
        rend == get_rend_class(e, "")
        open ==
            CASE width # "" /\ rend # "" ->
                    <<"<figure class=\"", rend, "\" style=\"width: ", width,
                      ";\">">>
              [] width # "" /\ rend = "" ->
                    <<"<figure style=\"width: ", width, ";\">">>
              [] width = "" /\ rend # "" ->
                    <<"<figure class=\"", rend, "\">">>
              [] OTHER -> <<"<figure>">>
        alt_text == IF HasChild(e, "figDesc")
                    THEN HTML_text(c, extract_plain_text(Find(e, "figDesc")))
                    ELSE <<>>
        img == Spaces(2) \o <<"<img src=\"">>
               \o A(Get(Find(e, "graphic"), "url", ""))
               \o <<"\" alt=\"">> \o alt_text
               \o (IF c.xhtml THEN <<"\"/>">> ELSE <<"\">">>)
        caption == Spaces(2) \o <<"<figcaption>">>
                   \o HTML_render_text_content(Find(e, "head"),
                                               with_parent(c, "figure", ""))
                   \o <<"</figcaption>">>
    IN  Result(PyStr(Join(<<"\n">>,
                          <<open>>
                          \o (IF hasGraphic THEN <<img>> ELSE <<>>)
                          \o (IF HasChild(e, "head") THEN <<caption>>
                              ELSE <<>>)
                          \o <<(<<"</figure>">>)>>)), <<>>)

HTML_render_milestone(r, e, at, c) ==
    LET rend == get_rend_class(e, "space")
    IN  Result(PyStr(<<"<div class=\"milestone ">> \o A(rend)
                     \o <<"\"></div>">>), <<>>)

EPUB_render_milestone(r, e, at, c) ==
    LET rend == get_rend_class(e, "space")
    IN  IF rend = "stars"
        THEN Result(PyStr(<<"<div class=\"milestone stars\"></div>">>), <<>>)
        ELSE Result(PyStr(<<"<div class=\"milestone space\"></div>">>), <<>>)

\* EPUBRenderer.render_ref: after reading the target it looks up
\* self._extract_text_with_markup, an attribute no renderer class defines.
EPUB_render_ref(r, e, at, c) == Result(PyRaise("AttributeError"), <<>>)

HTML_render_signed(r, e, at, c) ==
    Result(PyStr(<<"<div class=\"signature\">">>
                 \o HTML_render_text_content(e, c) \o <<"</div>">>), <<>>)

\* HTMLRenderer.render_element; EPUBRenderer inherits it and overrides
\* render_milestone.
HTML_render_element(r, e, tag, at, c) ==
    CASE tag = "div" -> HTML_render_div(r, e, at, c)
      [] tag = "head" -> HTML_render_head(r, e, at, c)
      [] tag = "p" -> HTML_render_paragraph(r, e, at, c)
      [] tag = "quote" -> HTML_render_quote(r, e, at, c)
      [] tag = "lg" -> HTML_render_line_group(r, e, at, c)
      [] tag = "list" -> HTML_render_list(r, e, at, c)
      [] tag = "table" -> HTML_render_table(r, e, at, c)
      [] tag = "figure" -> HTML_render_figure(r, e, at, c)
      [] tag = "milestone" ->
            IF r.fmt = "epub" THEN EPUB_render_milestone(r, e, at, c)
            ELSE HTML_render_milestone(r, e, at, c)
      [] tag = "signed" -> HTML_render_signed(r, e, at, c)
      [] OTHER -> Result(PyStr(HTML_render_text_content(e, c)), <<>>)

render_element(r, e, tag, at, c) ==
    IF r.fmt = "text" THEN Text_render_element(r, e, tag, at, c)
    ELSE HTML_render_element(r, e, tag, at, c)

\* TEITraverser.traverse_element
TraverseElement(r, e, at, c) ==
    Logged(render_element(r, e, strip_namespace(e.tag), at, c),
           [fn |-> "render_element", path |-> at.path,
            tag |-> strip_namespace(e.tag), ctx |-> c])

----------------------------------------------------------------------------
(* Documents, TEITraverser.traverse_document / traverse_section and        *)
(* EPUBRenderer.render_chapter                                             *)

\* The places of the descendants of the element at path, in document order.
RECURSIVE Descendants(_, _)
Descendants(e, path) ==
    Concat([i \in 1..Len(e.kids) |->
               <<Append(path, i)>> \o Descendants(e.kids[i], Append(path, i))])

\* doc.find('.//tei:<tag>'): the place of the first descendant with the
\* tag, or <<>> (the place of the root) when there is none.
FindFirst(doc, tag) ==
    LET found == SelectSeq(Descendants(doc, <<>>),
                           LAMBDA q : NodeAt(doc, q).tag = tag)
    IN  IF found = <<>> THEN <<>> ELSE Head(found)

\* common.get_title: the text of the first title element, which is None
\* when the element has no text, or 'Untitled' when there is no such
\* element.
get_title(doc) ==
    LET q == FindFirst(doc, "title")
    IN  IF q = <<>> THEN PyStr(<<"Untitled">>)
        ELSE IF NodeAt(doc, q).text = <<>> THEN PyNone
        ELSE PyStr(NodeAt(doc, q).text)

\* HTMLRenderer._get_default_css: one string per rule.
DefaultCss ==
    <<<<"    body { max-width: 40em; margin: 2em auto; padding: 0 1em; font-family: serif; line-height: 1.6; }">>,
      <<"    h1 { text-align: center; }">>,
      <<"    h2 { margin-top: 2em; }">>,
      <<"    .italic { font-style: italic; }">>,
      <<"    .bold { font-weight: bold; }">>,
      <<"    .underline { text-decoration: underline; }">>,
      <<"    .small-caps { font-variant: small-caps; }">>,
      <<"    .signature { text-align: right; font-style: italic; margin-top: 0.5em; }">>,
      <<"    blockquote { margin: 1em 2em; }">>,
      <<"    figure { margin: 2em auto; width: 80%; max-width: 100%; text-align: center; }">>,
      <<"    figure.left { float: left; margin: 0 2em 1em 0; width: 50%; max-width: 50%; }">>,
      <<"    figure.right { float: right; margin: 0 0 1em 2em; width: 50%; max-width: 50%; }">>,
      <<"    figure.center { margin: 2em auto; display: block; }">>,
      <<"    figure img { width: 100%; height: auto; }">>,
      <<"    figcaption { margin-top: 0.5em; font-style: italic; }">>,
      <<"    .poem { margin: 1em 0; }">>,
      <<"    .poem.center { text-align: center; }">>,
      <<"    .poem.center .stanza { display: inline-block; text-align: left; }">>,
      <<"    .poem-title { text-align: center; font-weight: bold; margin-bottom: 1em; }">>,
      <<"    .stanza { margin-bottom: 1em; }">>,
      <<"    .line { margin-top: 0; margin-bottom: 0; }">>,
      <<"    .indent { margin-left: 2em; }">>,
      <<"    .indent2 { margin-left: 4em; }">>,
      <<"    .indent3 { margin-left: 6em; }">>,
      <<"    .center { text-align: center; }">>,
      <<"    .milestone { text-align: center; margin: 2em 0; }">>,
      <<"    .milestone.stars::before { content: \"*       *       *       *       *\"; white-space: pre; }">>,
      <<"    .milestone.space { height: 2em; }">>,
      <<"    table { border-collapse: collapse; margin: 1em 0; }">>,
      <<"    td, th { border: 1px solid #ccc; padding: 0.5em; }">>>>

\* HTMLRenderer.render_document_start with no css_file.
HTML_render_document_start(doc) ==
    LET title == FStr(get_title(doc))
    IN  PyStr(Join(<<"\n">>,
            <<(<<"<!DOCTYPE html>">>), <<"<html lang=\"en\">">>, <<"<head>">>,
              <<"  <meta charset=\"UTF-8\">">>,
              <<"  <meta name=\"viewport\" content=\"width=device-width, initial-scale=1.0\">">>,
              <<"  <title>">> \o title \o <<"</title>">>,
              <<"  <style>">>>>
            \o DefaultCss
            \o <<(<<"  </style>">>), <<"</head>">>, <<"<body>">>,
                 <<"<h1>">> \o title \o <<"</h1>">>>>))

render_document_start(r, doc) ==
    IF r.fmt = "text" THEN PyList(<<>>) ELSE HTML_render_document_start(doc)

\* The closing of the HTML document, whatever the renderer.
render_document_end_closing(r) == PyStr(<<"\n", "</body>", "\n", "</html>">>)

render_document_end(r) ==
    IF r.fmt = "text" THEN PyList(<<>>)
    ELSE PyStr(<<"\n", "</body>", "\n", "</html>">>)

\* The code points for which str.isprintable() is false (Unicode 14.0), as
\* ranges <<first, last>>.
NonPrintableRanges ==
    {<<0, 31>>, <<127, 160>>, <<173, 173>>, <<888, 889>>, <<896, 899>>, <<907,
     907>>, <<909, 909>>, <<930, 930>>, <<1328, 1328>>, <<1367, 1368>>,
     <<1419, 1420>>, <<1424, 1424>>, <<1480, 1487>>, <<1515, 1518>>, <<1525,
     1541>>, <<1564, 1564>>, <<1757, 1757>>, <<1806, 1807>>, <<1867, 1868>>,
     <<1970, 1983>>, <<2043, 2044>>, <<2094, 2095>>, <<2111, 2111>>, <<2140,
     2141>>, <<2143, 2143>>, <<2155, 2159>>, <<2191, 2199>>, <<2274, 2274>>,
     <<2436, 2436>>, <<2445, 2446>>, <<2449, 2450>>, <<2473, 2473>>, <<2481,
     2481>>, <<2483, 2485>>, <<2490, 2491>>, <<2501, 2502>>, <<2505, 2506>>,
     <<2511, 2518>>, <<2520, 2523>>, <<2526, 2526>>, <<2532, 2533>>, <<2559,
     2560>>, <<2564, 2564>>, <<2571, 2574>>, <<2577, 2578>>, <<2601, 2601>>,
     <<2609, 2609>>, <<2612, 2612>>, <<2615, 2615>>, <<2618, 2619>>, <<2621,
     2621>>, <<2627, 2630>>, <<2633, 2634>>, <<2638, 2640>>, <<2642, 2648>>,
     <<2653, 2653>>, <<2655, 2661>>, <<2679, 2688>>, <<2692, 2692>>, <<2702,
     2702>>, <<2706, 2706>>, <<2729, 2729>>, <<2737, 2737>>, <<2740, 2740>>,
     <<2746, 2747>>, <<2758, 2758>>, <<2762, 2762>>, <<2766, 2767>>, <<2769,
     2783>>, <<2788, 2789>>, <<2802, 2808>>, <<2816, 2816>>, <<2820, 2820>>,
     <<2829, 2830>>, <<2833, 2834>>, <<2857, 2857>>, <<2865, 2865>>, <<2868,
     2868>>, <<2874, 2875>>, <<2885, 2886>>, <<2889, 2890>>, <<2894, 2900>>,
     <<2904, 2907>>, <<2910, 2910>>, <<2916, 2917>>, <<2936, 2945>>, <<2948,
     2948>>, <<2955, 2957>>, <<2961, 2961>>, <<2966, 2968>>, <<2971, 2971>>,
     <<2973, 2973>>, <<2976, 2978>>, <<2981, 2983>>, <<2987, 2989>>, <<3002,
     3005>>, <<3011, 3013>>, <<3017, 3017>>, <<3022, 3023>>, <<3025, 3030>>,
     <<3032, 3045>>, <<3067, 3071>>, <<3085, 3085>>, <<3089, 3089>>, <<3113,
     3113>>, <<3130, 3131>>, <<3141, 3141>>, <<3145, 3145>>, <<3150, 3156>>,
     <<3159, 3159>>, <<3163, 3164>>, <<3166, 3167>>, <<3172, 3173>>, <<3184,
     3190>>, <<3213, 3213>>, <<3217, 3217>>, <<3241, 3241>>, <<3252, 3252>>,
     <<3258, 3259>>, <<3269, 3269>>, <<3273, 3273>>, <<3278, 3284>>, <<3287,
     3292>>, <<3295, 3295>>, <<3300, 3301>>, <<3312, 3312>>, <<3315, 3327>>,
     <<3341, 3341>>, <<3345, 3345>>, <<3397, 3397>>, <<3401, 3401>>, <<3408,
     3411>>, <<3428, 3429>>, <<3456, 3456>>, <<3460, 3460>>, <<3479, 3481>>,
     <<3506, 3506>>, <<3516, 3516>>, <<3518, 3519>>, <<3527, 3529>>, <<3531,
     3534>>, <<3541, 3541>>, <<3543, 3543>>, <<3552, 3557>>, <<3568, 3569>>,
     <<3573, 3584>>, <<3643, 3646>>, <<3676, 3712>>, <<3715, 3715>>, <<3717,
     3717>>, <<3723, 3723>>, <<3748, 3748>>, <<3750, 3750>>, <<3774, 3775>>,
     <<3781, 3781>>, <<3783, 3783>>, <<3790, 3791>>, <<3802, 3803>>, <<3808,
     3839>>, <<3912, 3912>>, <<3949, 3952>>, <<3992, 3992>>, <<4029, 4029>>,
     <<4045, 4045>>, <<4059, 4095>>, <<4294, 4294>>, <<4296, 4300>>, <<4302,
     4303>>, <<4681, 4681>>, <<4686, 4687>>, <<4695, 4695>>, <<4697, 4697>>,
     <<4702, 4703>>, <<4745, 4745>>, <<4750, 4751>>, <<4785, 4785>>, <<4790,
     4791>>, <<4799, 4799>>, <<4801, 4801>>, <<4806, 4807>>, <<4823, 4823>>,
     <<4881, 4881>>, <<4886, 4887>>, <<4955, 4956>>, <<4989, 4991>>, <<5018,
     5023>>, <<5110, 5111>>, <<5118, 5119>>, <<5760, 5760>>, <<5789, 5791>>,
     <<5881, 5887>>, <<5910, 5918>>, <<5943, 5951>>, <<5972, 5983>>, <<5997,
     5997>>, <<6001, 6001>>, <<6004, 6015>>, <<6110, 6111>>, <<6122, 6127>>,
     <<6138, 6143>>, <<6158, 6158>>, <<6170, 6175>>, <<6265, 6271>>, <<6315,
     6319>>, <<6390, 6399>>, <<6431, 6431>>, <<6444, 6447>>, <<6460, 6463>>,
     <<6465, 6467>>, <<6510, 6511>>, <<6517, 6527>>, <<6572, 6575>>, <<6602,
     6607>>, <<6619, 6621>>, <<6684, 6685>>, <<6751, 6751>>, <<6781, 6782>>,
     <<6794, 6799>>, <<6810, 6815>>, <<6830, 6831>>, <<6863, 6911>>, <<6989,
     6991>>, <<7039, 7039>>, <<7156, 7163>>, <<7224, 7226>>, <<7242, 7244>>,
     <<7305, 7311>>, <<7355, 7356>>, <<7368, 7375>>, <<7419, 7423>>, <<7958,
     7959>>, <<7966, 7967>>, <<8006, 8007>>, <<8014, 8015>>, <<8024, 8024>>,
     <<8026, 8026>>, <<8028, 8028>>, <<8030, 8030>>, <<8062, 8063>>, <<8117,
     8117>>, <<8133, 8133>>, <<8148, 8149>>, <<8156, 8156>>, <<8176, 8177>>,
     <<8181, 8181>>, <<8191, 8207>>, <<8232, 8239>>, <<8287, 8303>>, <<8306,
     8307>>, <<8335, 8335>>, <<8349, 8351>>, <<8385, 8399>>, <<8433, 8447>>,
     <<8588, 8591>>, <<9255, 9279>>, <<9291, 9311>>, <<11124, 11125>>,
     <<11158, 11158>>, <<11508, 11512>>, <<11558, 11558>>, <<11560, 11564>>,
     <<11566, 11567>>, <<11624, 11630>>, <<11633, 11646>>, <<11671, 11679>>,
     <<11687, 11687>>, <<11695, 11695>>, <<11703, 11703>>, <<11711, 11711>>,
     <<11719, 11719>>, <<11727, 11727>>, <<11735, 11735>>, <<11743, 11743>>,
     <<11870, 11903>>, <<11930, 11930>>, <<12020, 12031>>, <<12246, 12271>>,
     <<12284, 12288>>, <<12352, 12352>>, <<12439, 12440>>, <<12544, 12548>>,
     <<12592, 12592>>, <<12687, 12687>>, <<12772, 12783>>, <<12831, 12831>>,
     <<42125, 42127>>, <<42183, 42191>>, <<42540, 42559>>, <<42744, 42751>>,
     <<42955, 42959>>, <<42962, 42962>>, <<42964, 42964>>, <<42970, 42993>>,
     <<43053, 43055>>, <<43066, 43071>>, <<43128, 43135>>, <<43206, 43213>>,
     <<43226, 43231>>, <<43348, 43358>>, <<43389, 43391>>, <<43470, 43470>>,
     <<43482, 43485>>, <<43519, 43519>>, <<43575, 43583>>, <<43598, 43599>>,
     <<43610, 43611>>, <<43715, 43738>>, <<43767, 43776>>, <<43783, 43784>>,
     <<43791, 43792>>, <<43799, 43807>>, <<43815, 43815>>, <<43823, 43823>>,
     <<43884, 43887>>, <<44014, 44015>>, <<44026, 44031>>, <<55204, 55215>>,
     <<55239, 55242>>, <<55292, 63743>>, <<64110, 64111>>, <<64218, 64255>>,
     <<64263, 64274>>, <<64280, 64284>>, <<64311, 64311>>, <<64317, 64317>>,
     <<64319, 64319>>, <<64322, 64322>>, <<64325, 64325>>, <<64451, 64466>>,
     <<64912, 64913>>, <<64968, 64974>>, <<64976, 65007>>, <<65050, 65055>>,
     <<65107, 65107>>, <<65127, 65127>>, <<65132, 65135>>, <<65141, 65141>>,
     <<65277, 65280>>, <<65471, 65473>>, <<65480, 65481>>, <<65488, 65489>>,
     <<65496, 65497>>, <<65501, 65503>>, <<65511, 65511>>, <<65519, 65531>>,
     <<65534, 65535>>, <<65548, 65548>>, <<65575, 65575>>, <<65595, 65595>>,
     <<65598, 65598>>, <<65614, 65615>>, <<65630, 65663>>, <<65787, 65791>>,
     <<65795, 65798>>, <<65844, 65846>>, <<65935, 65935>>, <<65949, 65951>>,
     <<65953, 65999>>, <<66046, 66175>>, <<66205, 66207>>, <<66257, 66271>>,
     <<66300, 66303>>, <<66340, 66348>>, <<66379, 66383>>, <<66427, 66431>>,
     <<66462, 66462>>, <<66500, 66503>>, <<66518, 66559>>, <<66718, 66719>>,
     <<66730, 66735>>, <<66772, 66775>>, <<66812, 66815>>, <<66856, 66863>>,
     <<66916, 66926>>, <<66939, 66939>>, <<66955, 66955>>, <<66963, 66963>>,
     <<66966, 66966>>, <<66978, 66978>>, <<66994, 66994>>, <<67002, 67002>>,
     <<67005, 67071>>, <<67383, 67391>>, <<67414, 67423>>, <<67432, 67455>>,
     <<67462, 67462>>, <<67505, 67505>>, <<67515, 67583>>, <<67590, 67591>>,
     <<67593, 67593>>, <<67638, 67638>>, <<67641, 67643>>, <<67645, 67646>>,
     <<67670, 67670>>, <<67743, 67750>>, <<67760, 67807>>, <<67827, 67827>>,
     <<67830, 67834>>, <<67868, 67870>>, <<67898, 67902>>, <<67904, 67967>>,
     <<68024, 68027>>, <<68048, 68049>>, <<68100, 68100>>, <<68103, 68107>>,
     <<68116, 68116>>, <<68120, 68120>>, <<68150, 68151>>, <<68155, 68158>>,
     <<68169, 68175>>, <<68185, 68191>>, <<68256, 68287>>, <<68327, 68330>>,
     <<68343, 68351>>, <<68406, 68408>>, <<68438, 68439>>, <<68467, 68471>>,
     <<68498, 68504>>, <<68509, 68520>>, <<68528, 68607>>, <<68681, 68735>>,
     <<68787, 68799>>, <<68851, 68857>>, <<68904, 68911>>, <<68922, 69215>>,
     <<69247, 69247>>, <<69290, 69290>>, <<69294, 69295>>, <<69298, 69375>>,
     <<69416, 69423>>, <<69466, 69487>>, <<69514, 69551>>, <<69580, 69599>>,
     <<69623, 69631>>, <<69710, 69713>>, <<69750, 69758>>, <<69821, 69821>>,
     <<69827, 69839>>, <<69865, 69871>>, <<69882, 69887>>, <<69941, 69941>>,
     <<69960, 69967>>, <<70007, 70015>>, <<70112, 70112>>, <<70133, 70143>>,
     <<70162, 70162>>, <<70207, 70271>>, <<70279, 70279>>, <<70281, 70281>>,
     <<70286, 70286>>, <<70302, 70302>>, <<70314, 70319>>, <<70379, 70383>>,
     <<70394, 70399>>, <<70404, 70404>>, <<70413, 70414>>, <<70417, 70418>>,
     <<70441, 70441>>, <<70449, 70449>>, <<70452, 70452>>, <<70458, 70458>>,
     <<70469, 70470>>, <<70473, 70474>>, <<70478, 70479>>, <<70481, 70486>>,
     <<70488, 70492>>, <<70500, 70501>>, <<70509, 70511>>, <<70517, 70655>>,
     <<70748, 70748>>, <<70754, 70783>>, <<70856, 70863>>, <<70874, 71039>>,
     <<71094, 71095>>, <<71134, 71167>>, <<71237, 71247>>, <<71258, 71263>>,
     <<71277, 71295>>, <<71354, 71359>>, <<71370, 71423>>, <<71451, 71452>>,
     <<71468, 71471>>, <<71495, 71679>>, <<71740, 71839>>, <<71923, 71934>>,
     <<71943, 71944>>, <<71946, 71947>>, <<71956, 71956>>, <<71959, 71959>>,
     <<71990, 71990>>, <<71993, 71994>>, <<72007, 72015>>, <<72026, 72095>>,
     <<72104, 72105>>, <<72152, 72153>>, <<72165, 72191>>, <<72264, 72271>>,
     <<72355, 72367>>, <<72441, 72703>>, <<72713, 72713>>, <<72759, 72759>>,
     <<72774, 72783>>, <<72813, 72815>>, <<72848, 72849>>, <<72872, 72872>>,
     <<72887, 72959>>, <<72967, 72967>>, <<72970, 72970>>, <<73015, 73017>>,
     <<73019, 73019>>, <<73022, 73022>>, <<73032, 73039>>, <<73050, 73055>>,
     <<73062, 73062>>, <<73065, 73065>>, <<73103, 73103>>, <<73106, 73106>>,
     <<73113, 73119>>, <<73130, 73439>>, <<73465, 73647>>, <<73649, 73663>>,
     <<73714, 73726>>, <<74650, 74751>>, <<74863, 74863>>, <<74869, 74879>>,
     <<75076, 77711>>, <<77811, 77823>>, <<78895, 82943>>, <<83527, 92159>>,
     <<92729, 92735>>, <<92767, 92767>>, <<92778, 92781>>, <<92863, 92863>>,
     <<92874, 92879>>, <<92910, 92911>>, <<92918, 92927>>, <<92998, 93007>>,
     <<93018, 93018>>, <<93026, 93026>>, <<93048, 93052>>, <<93072, 93759>>,
     <<93851, 93951>>, <<94027, 94030>>, <<94088, 94094>>, <<94112, 94175>>,
     <<94181, 94191>>, <<94194, 94207>>, <<100344, 100351>>, <<101590,
     101631>>, <<101641, 110575>>, <<110580, 110580>>, <<110588, 110588>>,
     <<110591, 110591>>, <<110883, 110927>>, <<110931, 110947>>, <<110952,
     110959>>, <<111356, 113663>>, <<113771, 113775>>, <<113789, 113791>>,
     <<113801, 113807>>, <<113818, 113819>>, <<113824, 118527>>, <<118574,
     118575>>, <<118599, 118607>>, <<118724, 118783>>, <<119030, 119039>>,
     <<119079, 119080>>, <<119155, 119162>>, <<119275, 119295>>, <<119366,
     119519>>, <<119540, 119551>>, <<119639, 119647>>, <<119673, 119807>>,
     <<119893, 119893>>, <<119965, 119965>>, <<119968, 119969>>, <<119971,
     119972>>, <<119975, 119976>>, <<119981, 119981>>, <<119994, 119994>>,
     <<119996, 119996>>, <<120004, 120004>>, <<120070, 120070>>, <<120075,
     120076>>, <<120085, 120085>>, <<120093, 120093>>, <<120122, 120122>>,
     <<120127, 120127>>, <<120133, 120133>>, <<120135, 120137>>, <<120145,
     120145>>, <<120486, 120487>>, <<120780, 120781>>, <<121484, 121498>>,
     <<121504, 121504>>, <<121520, 122623>>, <<122655, 122879>>, <<122887,
     122887>>, <<122905, 122906>>, <<122914, 122914>>, <<122917, 122917>>,
     <<122923, 123135>>, <<123181, 123183>>, <<123198, 123199>>, <<123210,
     123213>>, <<123216, 123535>>, <<123567, 123583>>, <<123642, 123646>>,
     <<123648, 124895>>, <<124903, 124903>>, <<124908, 124908>>, <<124911,
     124911>>, <<124927, 124927>>, <<125125, 125126>>, <<125143, 125183>>,
     <<125260, 125263>>, <<125274, 125277>>, <<125280, 126064>>, <<126133,
     126208>>, <<126270, 126463>>, <<126468, 126468>>, <<126496, 126496>>,
     <<126499, 126499>>, <<126501, 126502>>, <<126504, 126504>>, <<126515,
     126515>>, <<126520, 126520>>, <<126522, 126522>>, <<126524, 126529>>,
     <<126531, 126534>>, <<126536, 126536>>, <<126538, 126538>>, <<126540,
     126540>>, <<126544, 126544>>, <<126547, 126547>>, <<126549, 126550>>,
     <<126552, 126552>>, <<126554, 126554>>, <<126556, 126556>>, <<126558,
     126558>>, <<126560, 126560>>, <<126563, 126563>>, <<126565, 126566>>,
     <<126571, 126571>>, <<126579, 126579>>, <<126584, 126584>>, <<126589,
     126589>>, <<126591, 126591>>, <<126602, 126602>>, <<126620, 126624>>,
     <<126628, 126628>>, <<126634, 126634>>, <<126652, 126703>>, <<126706,
     126975>>, <<127020, 127023>>, <<127124, 127135>>, <<127151, 127152>>,
     <<127168, 127168>>, <<127184, 127184>>, <<127222, 127231>>, <<127406,
     127461>>, <<127491, 127503>>, <<127548, 127551>>, <<127561, 127567>>,
     <<127570, 127583>>, <<127590, 127743>>, <<128728, 128732>>, <<128749,
     128751>>, <<128765, 128767>>, <<128884, 128895>>, <<128985, 128991>>,
     <<129004, 129007>>, <<129009, 129023>>, <<129036, 129039>>, <<129096,
     129103>>, <<129114, 129119>>, <<129160, 129167>>, <<129198, 129199>>,
     <<129202, 129279>>, <<129620, 129631>>, <<129646, 129647>>, <<129653,
     129655>>, <<129661, 129663>>, <<129671, 129679>>, <<129709, 129711>>,
     <<129723, 129727>>, <<129734, 129743>>, <<129754, 129759>>, <<129768,
     129775>>, <<129783, 129791>>, <<129939, 129939>>, <<129995, 130031>>,
     <<130042, 131071>>, <<173792, 173823>>, <<177977, 177983>>, <<178206,
     178207>>, <<183970, 183983>>, <<191457, 194559>>, <<195102, 196607>>,
     <<201547, 917759>>, <<918000, 1114111>>}

LowerHexDigits ==
    <<"0", "1", "2", "3", "4", "5", "6", "7", "8", "9", "a", "b", "c", "d",
      "e", "f">>

\* not chr(n).isprintable() for the character of a code-point atom.
NonPrintable(a) ==
    \E g \in NonPrintableRanges : CodeOf(a) \in g[1]..g[2]

\* The atoms of a sequence as the text of one atom.
RECURSIVE Glue(_)
Glue(ss) == IF ss = <<>> THEN "" ELSE Head(ss) \o Glue(Tail(ss))

\* The number n in k hexadecimal digits, in lower case.
LowerHex(n, k) ==
    Glue([i \in 1..k |-> LowerHexDigits[((n \div (16 ^ (k - i))) % 16) + 1]])

\* The escape repr() writes for the non-printable character n.
ReprCode(n) ==
    IF n < 256 THEN "\\x" \o LowerHex(n, 2)
    ELSE IF n < 65536 THEN "\\u" \o LowerHex(n, 4)
    ELSE "\\U" \o LowerHex(n, 8)

\* The text a holds the character ch.
RECURSIVE HasChar(_, _)
HasChar(a, ch) ==
    /\ Len(a) > 0
    /\ \/ SubSeq(a, 1, 1) = ch
       \/ HasChar(SubSeq(a, 2, Len(a)), ch)

\* repr() quotes the string s with ": it holds a ' and no ".
DoubleQuoted(s) ==
    /\ \E i \in DOMAIN s : HasChar(s[i], "'")
    /\ ~\E i \in DOMAIN s : HasChar(s[i], "\"")

\* repr() of a printable ASCII text inside the quotes: the backslash and
\* the quoting character are escaped.
RECURSIVE ReprText(_, _)
ReprText(a, double) ==
    IF Len(a) = 0 THEN a
    ELSE (CASE SubSeq(a, 1, 1) = "\\" -> "\\\\"
            [] SubSeq(a, 1, 1) = "'" /\ ~double -> "\\'"
            [] OTHER -> SubSeq(a, 1, 1))
         \o ReprText(SubSeq(a, 2, Len(a)), double)

\* repr() of one atom inside the quotes: \t, \n and \r have their own
\* escapes, every other non-printable character is written by its code.
ReprAtom(a, double) ==
    CASE a = "\n" -> "\\n"
      [] a = "\t" -> "\\t"
      [] a = "\r" -> "\\r"
      [] a = "\f" -> "\\x0c"
      [] a \in Glyphs -> a
      [] IsCodePoint(a) -> IF NonPrintable(a) THEN ReprCode(CodeOf(a)) ELSE a
      [] OTHER -> ReprText(a, double)

ReprQuoted(s, double) ==
    <<(IF double THEN "\"" ELSE "'")>>
    \o [i \in DOMAIN s |-> ReprAtom(s[i], double)]
    \o <<(IF double THEN "\"" ELSE "'")>>

\* repr(s) of a string.
Repr(s) == ReprQuoted(s, DoubleQuoted(s))

\* str(p) of a part: a string is itself, a list its repr.
PyStrOf(x) ==
    IF x.t = "str" THEN x.v
    ELSE <<"[">> \o Join(<<",", " ">>, [i \in 1..Len(x.v) |-> Repr(x.v[i])])
         \o <<"]">>

\* _combine_parts without its first step: no part is dropped.
combine_parts_keep_all(parts) ==
    IF parts = <<>> THEN PyStr(<<>>)
    ELSE IF \A i \in 1..Len(parts) : parts[i].t = "str"
    THEN PyStr(Concat([i \in 1..Len(parts) |-> parts[i].v]))
    ELSE IF \A i \in 1..Len(parts) : parts[i].t = "list"
    THEN PyList(Concat([i \in 1..Len(parts) |-> parts[i].v]))
    ELSE PyStr(Concat([i \in 1..Len(parts) |-> PyStrOf(parts[i])]))

\* TEITraverser._combine_parts
combine_parts(parts) ==
    LET kept == SelectSeq(parts, LAMBDA x : Truthy(x))
    IN  IF kept = <<>> THEN PyStr(<<>>)
        ELSE IF \A i \in 1..Len(kept) : kept[i].t = "str"
        THEN PyStr(Concat(Vals(kept)))
        ELSE IF \A i \in 1..Len(kept) : kept[i].t = "list"
        THEN PyList(Concat(Vals(kept)))
        ELSE PyStr(Concat([i \in 1..Len(kept) |-> PyStrOf(kept[i])]))

\* _combine_parts of the values of a list of results.
Combined(children) == Returned(children, combine_parts(children.vals))

\* TEITraverser.traverse_section
traverse_section(r, section, at, c) ==
    Logged(Combined(RenderEach(r, section.kids, at, 1,
                        [i \in 1..Len(section.kids) |->
                            with_parent(c,
                                strip_namespace(section.kids[i].tag),
                                Get(section.kids[i], "rend", ""))])),
           [fn |-> "traverse_section", path |-> at.path,
            tag |-> section.tag, ctx |-> c])

SectionOrderBodyFirst == <<"body", "front", "back">>

\* The order in which traverse_document looks for the sections.
SectionOrder == <<"front", "body", "back">>

\* The parts traverse_document appends from the k-th section of
\* SectionOrder on: each section that doc.find finds, traversed under
\* root_context.with_parent(section), and last render_document_end().
\* _combine_parts drops the falsy parts, so only the truthy ones are kept.
RECURSIVE Sections(_, _, _)
Sections(r, doc, k) ==
    IF k > Len(SectionOrder)
    THEN KeepTruthy(
             Result(render_document_end(r),
                    <<[fn |-> "render_document_end", path |-> <<>>,
                       tag |-> doc.tag,
                       ctx |-> RenderContext([parent_tag |-> "TEI"])]>>),
             [vals |-> <<>>, calls |-> <<>>])
    ELSE IF FindFirst(doc, SectionOrder[k]) = <<>>
    THEN Sections(r, doc, k + 1)
    ELSE KeepTruthy(
             traverse_section(
                 r, NodeAt(doc, FindFirst(doc, SectionOrder[k])),
                 [root |-> doc, path |-> FindFirst(doc, SectionOrder[k])],
                 with_parent(RenderContext([parent_tag |-> "TEI"]),
                             SectionOrder[k], "")),
             Sections(r, doc, k + 1))

\* TEITraverser.traverse_document
traverse_document(r, doc) ==
    Combined(KeepTruthy(
                 Result(render_document_start(r, doc),
                        <<[fn |-> "render_document_start", path |-> <<>>,
                           tag |-> doc.tag,
                           ctx |-> RenderContext([parent_tag |-> "TEI"])]>>),
                 Sections(r, doc, 1)))

\* The attribute name render_chapter reads the division's identifier from.
ChapterIdAttr == "{http://www.w3.org/1998/namespace}id"

\* The document render_chapter builds around the results of the children
\* of the division; each holds one result per child, empty for a head.
ChapterDocument(div, book_title, each) ==
    LET hasHead == HasChild(div, "head")
        heading_text == Strip(extract_plain_text(Find(div, "head")))
        chapter_title == IF hasHead THEN heading_text ELSE book_title.v
        div_id == Get(div, ChapterIdAttr, "")
        heading ==
            IF ~hasHead THEN <<>>
            ELSE IF div_id # ""
            THEN <<(<<"<h2 id=\"", EscapeAtom(div_id), "\">">>
                    \o Escape(heading_text) \o <<"</h2>">>)>>
            ELSE <<(<<"<h2>">> \o Escape(heading_text) \o <<"</h2>">>)>>
        kept == SelectSeq(each, LAMBDA x : Truthy(x.val))
    IN  IF ~hasHead /\ book_title.t = "none"
        THEN \* html.escape(None)
             Result(PyRaise("AttributeError"), <<>>)
        ELSE
        Result(PyStr(Join(<<"\n">>,
            <<(<<"<?xml version=\"1.0\" encoding=\"UTF-8\"?>">>),
              <<"<!DOCTYPE html>">>,
              <<"<html xmlns=\"http://www.w3.org/1999/xhtml\" xmlns:epub=\"http://www.idpf.org/2007/ops\">">>,
              <<"<head>">>,
              <<"  <title>">> \o Escape(chapter_title) \o <<"</title>">>,
              <<"  <link rel=\"stylesheet\" type=\"text/css\" href=\"styles.css\"/>">>,
              <<"</head>">>, <<"<body>">>>>
            \o heading
            \o ExtendOrAppend([i \in 1..Len(kept) |-> kept[i].val])
            \o <<(<<"</body>">>), <<"</html>">>>>)),
          Concat([i \in 1..Len(each) |-> each[i].calls]))

\* EPUBRenderer.render_chapter; book_title is a str or None, id_map is
\* NoIdMap for None.  Every child
\* but a head is traversed under context.with_parent('div').
render_chapter(r, div, book_title, id_map) ==
    ChapterDocument(div, book_title,
        [i \in 1..Len(div.kids) |->
            IF strip_namespace(div.kids[i].tag) = "head"
            THEN Result(PyStr(<<>>), <<>>)
            ELSE TraverseElement(
                     r, div.kids[i], Child(Root(div), i),
                     with_parent(
                         RenderContext(
                             [parent_tag |-> "body", xhtml |-> TRUE,
                              id_map |-> IF id_map = NoIdMap
                                         THEN SomeIdMap(<<>>) ELSE id_map]),
                         "div", ""))])

----------------------------------------------------------------------------
(* SpecContext: RenderContext objects and the operations on them.  heap    *)
(* holds the objects by identity; a derive operation is called on the      *)
(* object self and returns the identity of its result.                     *)

Frozen == TRUE

MaxObjects == 3

NoOp == [op |-> "none", self |-> 0, ret |-> 0, err |-> "none"]

DeriveInPlace(h, self, new) == Append([h EXCEPT ![self] = new], new)

Derive(h, self, new) == Append(h, new)

SetAttr(h, self, field, value) ==
    IF Frozen
    THEN [heap |-> h, err |-> "FrozenInstanceError"]
    ELSE [heap |-> [h EXCEPT ![self][field] = value], err |-> "none"]

InitialContexts ==
    {RenderContext([parent_tag |-> t, quote_depth |-> q])
        : t \in {"", "div"}, q \in {0, 1}}

DoDerive(name, self, new) ==
    /\ Len(heap) < MaxObjects
    /\ heap' = Derive(heap, self, new)
    /\ last' = [op |-> name, self |-> self, ret |-> Len(heap'),
                err |-> "none"]
    /\ UNCHANGED <<renderer, elem, ctx, pc, res, returned>>

WithParent ==
    \E self \in DOMAIN heap, t \in {"", "p", "div", "quote"},
       r \in {"", "italic"} :
        DoDerive("with_parent", self, with_parent(heap[self], t, r))

WithDeeperQuote ==
    \E self \in DOMAIN heap :
        DoDerive("with_deeper_quote", self, with_deeper_quote(heap[self]))

WithDeeperBlock ==
    \E self \in DOMAIN heap :
        DoDerive("with_deeper_block", self, with_deeper_block(heap[self]))

WithIndent ==
    \E self \in DOMAIN heap, k \in {-1, 1, 2} :
        DoDerive("with_indent", self, with_indent(heap[self], k))

WithXhtml ==
    \E self \in DOMAIN heap, b \in BOOLEAN :
        DoDerive("with_xhtml", self, with_xhtml(heap[self], b))

WithIdMap ==
    \E self \in DOMAIN heap, m \in {[k \in {<<"ch1">>} |-> <<"chapter1">>]} :
        DoDerive("with_id_map", self, with_id_map(heap[self], m))

AssignField ==
    \E self \in DOMAIN heap :
        \E fv \in {<<"quote_depth", 5>>, <<"parent_tag", "p">>,
                   <<"xhtml", TRUE>>, <<"indent_level", 2>>} :
            LET r == SetAttr(heap, self, fv[1], fv[2])
            IN  /\ heap' = r.heap
                /\ last' = [op |-> "setattr", self |-> self, ret |-> 0,
                            err |-> r.err]
                /\ UNCHANGED <<renderer, elem, ctx, pc, res, returned>>

InitContext ==
    /\ \E c \in InitialContexts : heap = <<c>>
    /\ last = NoOp
    /\ renderer = [fmt |-> "none"]
    /\ elem = <<>>
    /\ ctx = DefaultContext
    /\ pc = "none"
    /\ res = <<>>
    /\ returned = <<>>

NextContext ==
    \/ WithParent
    \/ WithDeeperQuote
    \/ WithDeeperBlock
    \/ WithIndent
    \/ WithXhtml
    \/ WithIdMap
    \/ AssignField

SpecContext == InitContext /\ [][NextContext]_vars

\* C3: no operation changes a RenderContext once built: over any step every
\* existing object keeps all its fields, a derive operation returns a new
\* object, and a direct assignment raises an error and changes nothing.
C3_ContextImmutable ==
    [][/\ \A o \in DOMAIN heap : o \in DOMAIN heap' /\ heap'[o] = heap[o]
       /\ last'.op \notin {"none", "setattr"} =>
            /\ Len(heap') = Len(heap) + 1
            /\ last'.ret = Len(heap')
            /\ last'.ret # last'.self
       /\ last'.op = "setattr" =>
            /\ last'.err = "FrozenInstanceError"
            /\ heap' = heap]_vars

C3_Witness ==
    /\ Len(heap) = 3
    /\ last.op = "setattr"
    /\ heap[3] # heap[1]

\* The fields a derive operation sets.
OwnFields(name) ==
    CASE name = "with_parent" -> {"parent_tag", "parent_rend"}
      [] name = "with_deeper_quote" -> {"quote_depth"}
      [] name = "with_deeper_block" -> {"block_depth"}
      [] name = "with_indent" -> {"indent_level"}
      [] name = "with_xhtml" -> {"xhtml"}
      [] name = "with_id_map" -> {"id_map"}

\* The derive operations with their arguments.
Derivations ==
    <<[name |-> "with_parent", arg |-> <<"p", "italic">>],
      [name |-> "with_deeper_quote", arg |-> <<>>],
      [name |-> "with_deeper_block", arg |-> <<>>],
      [name |-> "with_indent", arg |-> -1],
      [name |-> "with_indent", arg |-> 2],
      [name |-> "with_xhtml", arg |-> TRUE],
      [name |-> "with_id_map",
       arg |-> [k \in {<<"ch1">>} |-> <<"chapter1">>]]>>

\* The context the derivation d returns on the context c.
Apply(d, c) ==
    CASE d.name = "with_parent" -> with_parent(c, d.arg[1], d.arg[2])
      [] d.name = "with_deeper_quote" -> with_deeper_quote(c)
      [] d.name = "with_deeper_block" -> with_deeper_block(c)
      [] d.name = "with_indent" -> with_indent(c, d.arg)
      [] d.name = "with_xhtml" -> with_xhtml(c, d.arg)
      [] d.name = "with_id_map" -> with_id_map(c, d.arg)

\* The fields the derivation d is to set on c, with their values.
Expected(d, c) ==
    CASE d.name = "with_parent" ->
            [parent_tag |-> d.arg[1], parent_rend |-> d.arg[2]]
      [] d.name = "with_deeper_quote" -> [quote_depth |-> c.quote_depth + 1]
      [] d.name = "with_deeper_block" -> [block_depth |-> c.block_depth + 1]
      [] d.name = "with_indent" -> [indent_level |-> c.indent_level + d.arg]
      [] d.name = "with_xhtml" -> [xhtml |-> d.arg]
      [] d.name = "with_id_map" -> [id_map |-> <<d.arg>>]

Unrelated(d1, d2) == OwnFields(d1.name) \cap OwnFields(d2.name) = {}

\* The derivation d sets its own fields on c and copies the others.
SetsOwnFields(d, c) ==
    /\ DOMAIN Apply(d, c) = DOMAIN c
    /\ DOMAIN Expected(d, c) = OwnFields(d.name)
    /\ \A f \in DOMAIN c :
          Apply(d, c)[f] = IF f \in OwnFields(d.name)
                           THEN Expected(d, c)[f] ELSE c[f]

Commute(d1, d2, c) == Apply(d1, Apply(d2, c)) = Apply(d2, Apply(d1, c))

\* C20: on every context, each derive operation gives a context with its
\* own fields set (with_parent: parent_tag and parent_rend; with_deeper_quote:
\* quote_depth + 1; with_deeper_block: block_depth + 1; with_indent(k):
\* indent_level + k; with_xhtml; with_id_map) and every other field copied,
\* and two derivations on unrelated fields give the same context in either
\* order, with_deeper_quote and with_indent(k) among them.  Every context
\* is the newest of the heap in the state its constructor or its derive
\* operation returns in.
C20_DerivationsCommute ==
    last.op # "setattr" =>
        /\ \A i \in DOMAIN Derivations :
              SetsOwnFields(Derivations[i], heap[Len(heap)])
        /\ \A i, j \in DOMAIN Derivations :
              (i < j /\ Unrelated(Derivations[i], Derivations[j]))
                  => Commute(Derivations[i], Derivations[j], heap[Len(heap)])
        /\ \A k \in {-1, 1, 2} :
              with_indent(with_deeper_quote(heap[Len(heap)]), k)
                  = with_deeper_quote(with_indent(heap[Len(heap)], k))

\* A context under a parent, deepened and then indented by the operations:
\* the result has both changes and still its parent.
C20_Witness ==
    /\ Len(heap) = 3
    /\ last.op = "with_indent"
    /\ heap[1].parent_tag = "div"
    /\ heap[2] = with_deeper_quote(heap[1])
    /\ heap[3] = with_indent(heap[2], 2)
    /\ heap[3] = with_deeper_quote(with_indent(heap[1], 2))
    /\ heap[3].quote_depth = heap[1].quote_depth + 1
    /\ heap[3].indent_level = 2
    /\ heap[3].parent_tag = "div"

----------------------------------------------------------------------------
(* The rendering operations.  A specification draws a renderer, an input   *)
(* and a context in its initial states; one step calls the operation.      *)

\* A renderer after __init__: title is the attribute render_document_start
\* sets, '' until then.
TextRenderer(line_width) ==
    [fmt |-> "text", line_width |-> line_width, title |-> PyStr(<<>>)]

HTMLRenderer == [fmt |-> "html", title |-> PyStr(<<>>)]

EPUBRenderer == [fmt |-> "epub", xhtml |-> TRUE, title |-> PyStr(<<>>)]

Ready(rs, es, cs) ==
    /\ renderer \in rs
    /\ elem \in es
    /\ ctx \in cs
    /\ pc = "ready"
    /\ res = [op |-> "none", val |-> PyStr(<<>>), calls |-> <<>>]
    /\ heap = <<>>
    /\ last = NoOp
    /\ returned = <<>>

\* The operation returns out and leaves the renderer in state r.
Finish(op, out, r) ==
    /\ pc' = "done"
    /\ res' = [op |-> op, val |-> out.val, calls |-> out.calls]
    /\ renderer' = r
    /\ UNCHANGED <<heap, last, elem, ctx, returned>>

\* traverser.traverse_element(elem, ctx): the renderer's handler for the
\* element's tag is called with the context.
CallTraverseElement ==
    /\ pc = "ready"
    /\ elem.tag # "TEI"
    /\ Finish("traverse_element",
              TraverseElement(renderer, elem, Root(elem), ctx), renderer)

\* traverser.traverse_document(doc); render_document_start sets the title
\* of the renderer.
CallTraverseDocument ==
    /\ pc = "ready"
    /\ elem.tag = "TEI"
    /\ Finish("traverse_document", traverse_document(renderer, elem),
              [renderer EXCEPT !.title = get_title(elem)])

\* The next-state relation of the specifications whose one operation is
\* traverse_element.
NextElement == CallTraverseElement

\* The output as one string: the lines of a list one after the other.
Flat(val) == IF val.t = "list" THEN Concat(val.v) ELSE val.v

----------------------------------------------------------------------------
(* SpecInline: paragraphs and quotations whose inline content is made of   *)
(* quotations nested directly inside one another.                          *)

MaxNest == 3

Quote(text, kids, tail) == Element("quote", NoAttrs, text, kids, tail)

Para(text, kids) == Element("p", NoAttrs, text, kids, <<>>)

\* <p><quote>A<quote>B</quote>C</quote></p>
ExampleParagraph ==
    Para(<<>>, <<Quote(<<"A">>, <<Quote(<<"B">>, <<>>, <<"C">>)>>, <<>>)>>)

TwoQuotes == <<Quote(<<"A">>, <<>>, <<>>), Quote(<<"B">>, <<>>, <<"C">>)>>

RECURSIVE QuoteTrees(_)
QuoteTrees(d) ==
    IF d = 0 THEN {}
    ELSE {Quote(t, k, tl) :
            t \in {<<"A">>, <<"B">>}, tl \in {<<>>, <<"C">>},
            k \in {<<>>} \cup {<<q>> : q \in QuoteTrees(d - 1)}
                  \cup (IF d > 1 THEN {TwoQuotes} ELSE {})}

QuoteParagraphs ==
    {Para(t, k) :
        t \in {<<>>, <<"A">>},
        k \in {<<>>, TwoQuotes} \cup {<<q>> : q \in QuoteTrees(MaxNest)}}

InlineRenderers == {TextRenderer(72), HTMLRenderer, EPUBRenderer}

InitInline ==
    \/ Ready(InlineRenderers, QuoteParagraphs,
             {RenderContext([parent_tag |-> "div", quote_depth |-> d]) :
                 d \in {0, 1}})
    \/ Ready(InlineRenderers, QuoteTrees(MaxNest),
             {RenderContext([parent_tag |-> t, quote_depth |-> d]) :
                 t \in {"p", "l", "div"}, d \in {0, 1}})

SpecInline == InitInline /\ [][NextElement]_vars

RECURSIVE NumQuotes(_)
NumQuotes(e) ==
    (IF e.tag = "quote" THEN 1 ELSE 0)
    + LET n[i \in 0..Len(e.kids)] ==
              IF i = 0 THEN 0 ELSE n[i - 1] + NumQuotes(e.kids[i])
      IN  n[Len(e.kids)]

\* The glyphs of s open and close in properly nested pairs, the pair opened
\* at depth k being the double one for even k and the single one for odd k,
\* and s starts and ends at depth base.
RECURSIVE Alternates(_, _, _)
Alternates(s, k, base) ==
    IF s = <<>> THEN k = base
    ELSE IF Head(s) \in {"LDQ", "LSQ"}
    THEN /\ Head(s) = (IF k % 2 = 0 THEN "LDQ" ELSE "LSQ")
         /\ Alternates(Tail(s), k + 1, base)
    ELSE IF Head(s) \in {"RDQ", "RSQ"}
    THEN /\ k > base
         /\ Head(s) = (IF (k - 1) % 2 = 0 THEN "RDQ" ELSE "RSQ")
         /\ Alternates(Tail(s), k - 1, base)
    ELSE Alternates(Tail(s), k, base)

Done(op) == pc = "done" /\ res.op = op

IsParagraphRun == Done("traverse_element") /\ elem.tag = "p"

\* C1: in a paragraph rendered under quote_depth d by the text or the HTML
\* renderer, directly nested inline quotations come out as properly nested
\* pairs, double at even depth and single at odd depth starting from d, one
\* pair per quotation; <quote>A<quote>B</quote>C</quote> at depth 0 gives
\* LDQ A LSQ B RSQ C RDQ.
C1_QuoteAlternation ==
    IsParagraphRun =>
        /\ Alternates(Flat(res.val), ctx.quote_depth, ctx.quote_depth)
        /\ Count("LDQ", Flat(res.val)) + Count("LSQ", Flat(res.val))
               = NumQuotes(elem)
        /\ (elem = ExampleParagraph /\ ctx.quote_depth = 0) =>
              Flat(res.val) =
                  IF renderer.fmt = "text"
                  THEN <<"LDQ", "A", "LSQ", "B", "RSQ", "C", "RDQ">>
                  ELSE <<"<p>", "LDQ", "A", "LSQ", "B", "RSQ", "C", "RDQ",
                         "</p>">>

C1_Witness ==
    /\ IsParagraphRun
    /\ NumQuotes(elem) = 3
    /\ Count("LSQ", Flat(res.val)) >= 1
    /\ Count("LDQ", Flat(res.val)) >= 1

InlineParents == {"p", "item", "cell", "note", "head", "l"}

IsInlineQuoteRun ==
    /\ Done("traverse_element")
    /\ elem.tag = "quote"
    /\ ctx.parent_tag \in InlineParents

\* The pair for depth d, and text wrapped in it.
Wrapped(d, text) ==
    IF d % 2 = 0 THEN <<"LDQ">> \o text \o <<"RDQ">>
    ELSE <<"LSQ">> \o text \o <<"RSQ">>

Deeper(c) == [c EXCEPT !.quote_depth = @ + 1]

\* C6: called with a context whose parent is an inline parent, the quotation
\* handler of the HTML and of the EPUB renderer returns the inline content
\* rendered at quote_depth + 1, wrapped in the pair of the context's
\* quote_depth; the handler of the text renderer returns an empty list.
C6_InlineQuoteHandler ==
    IsInlineQuoteRun =>
        IF renderer.fmt = "text" THEN res.val = PyList(<<>>)
        ELSE res.val = PyStr(Wrapped(ctx.quote_depth,
                                 HTML_render_text_content(elem, Deeper(ctx))))

C6_Witness ==
    /\ IsInlineQuoteRun
    /\ renderer.fmt = "epub"
    /\ ctx.quote_depth = 1
    /\ NumQuotes(elem) = 3
    /\ Count("LDQ", Flat(res.val)) >= 1

\* C6 as stated: the same in every renderer, the text renderer included.
C6_EveryRenderer ==
    IsInlineQuoteRun =>
        Flat(res.val)
            = Wrapped(ctx.quote_depth,
                  IF renderer.fmt = "text"
                  THEN Text_extract_text_with_emphasis(elem, Deeper(ctx))
                  ELSE HTML_render_text_content(elem, Deeper(ctx)))

----------------------------------------------------------------------------
(* SpecBlock: quotations rendered as blocks, holding block-level children  *)
(* of every kind, block quotations nested in them, and inline quotations   *)
(* in their paragraphs.                                                    *)

Leaf(tag, text) == Element(tag, NoAttrs, text, <<>>, <<>>)

Node(tag, kids) == Element(tag, NoAttrs, <<>>, kids, <<>>)

\* <p>A <quote>B</quote></p>
ParaWithQuote == Para(<<"A", " ">>, <<Quote(<<"B">>, <<>>, <<>>)>>)

\* One child of a block quotation for each block-level tag.
BlockChildren ==
    {Leaf("p", <<"A">>), ParaWithQuote, Leaf("signed", <<"X">>),
     Node("lg", <<Leaf("l", <<"A">>)>>),
     Node("list", <<Leaf("item", <<"A">>)>>),
     Node("table", <<Node("row", <<Leaf("cell", <<"A">>)>>)>>),
     Node("figure", <<Leaf("head", <<"A">>)>>),
     Node("div", <<Leaf("p", <<"A">>)>>)}

RECURSIVE BlockQuotes(_)
BlockQuotes(d) ==
    IF d = 0 THEN {}
    ELSE {Node("quote", <<k>>) : k \in BlockChildren}
         \cup {Node("quote", <<k1, k2>>) : k1, k2 \in BlockChildren}
         \cup {Quote(<<"A">>, <<>>, <<>>),
               Quote(<<"A">>, <<Quote(<<"B">>, <<>>, <<>>)>>, <<>>)}
         \cup {Node("quote", <<q>>) : q \in BlockQuotes(d - 1)}
         \cup {Node("quote", <<Leaf("p", <<"A">>), q>>) :
                  q \in BlockQuotes(d - 1)}

InitBlock ==
    Ready(InlineRenderers, BlockQuotes(MaxNest),
          {RenderContext([parent_tag |-> t, quote_depth |-> q,
                          block_depth |-> b, indent_level |-> b]) :
              t \in {"div", "body"}, q \in {0, 1}, b \in {0, 1}})

SpecBlock == InitBlock /\ [][NextElement]_vars

\* The number of quotations properly enclosing the element at path.
QuoteAncestors(root, path) ==
    Cardinality({n \in 0..(Len(path) - 1) :
                    NodeAt(root, SubSeq(path, 1, n)).tag = "quote"})

\* C2: in any traversal the quote_depth of the context an element is
\* rendered under is the starting depth plus the number of quotations that
\* enclose it, block or inline; so the inline quotation of a paragraph
\* inside one block quotation, starting from depth 0, gets the single pair.
C2_DepthCountsQuotations ==
    Done("traverse_element") =>
        /\ \A i \in DOMAIN res.calls :
              res.calls[i].ctx.quote_depth
                  = ctx.quote_depth + QuoteAncestors(elem, res.calls[i].path)
        /\ (elem = Node("quote", <<ParaWithQuote>>) /\ ctx.quote_depth = 0) =>
              /\ Count("LSQ", Flat(res.val)) = 1
              /\ Count("LDQ", Flat(res.val)) = 0

IsTextBlockRun ==
    /\ Done("traverse_element")
    /\ renderer.fmt = "text"
    /\ ctx.indent_level = 0
    /\ ctx.block_depth = 0

\* The lines the text renderer puts out for the paragraph it dispatched in
\* call k of the traversal.
ParagraphLines(k) ==
    Text_render_paragraph(renderer, NodeAt(elem, k.path),
                          [root |-> elem, path |-> k.path], k.ctx).val.v

\* C11: with the text renderer, starting from indent_level = block_depth
\* = 0, every element is dispatched under indent_level = block_depth = n,
\* the number of block quotations that enclose it, and every non-blank line
\* of a paragraph dispatched there starts with exactly 4 * n spaces.
C11_IndentIsBlockDepth ==
    IsTextBlockRun =>
        \A i \in DOMAIN res.calls :
            LET k == res.calls[i]
                n == QuoteAncestors(elem, k.path)
            IN  /\ k.ctx.indent_level = n
                /\ k.ctx.block_depth = n
                /\ k.tag = "p" =>
                      \A j \in DOMAIN ParagraphLines(k) :
                          LET line == ParagraphLines(k)[j]
                          IN  \/ line = <<>>
                              \/ /\ Len(line) > 4 * n
                                 /\ SubSeq(line, 1, 4 * n) = Spaces(4 * n)
                                 /\ line[4 * n + 1] \notin WhiteSpace

\* A paragraph two block quotations deep is dispatched and its line is in
\* the output, eight spaces in front.
C11_Witness ==
    /\ IsTextBlockRun
    /\ \E i \in DOMAIN res.calls :
          /\ res.calls[i].tag = "p"
          /\ QuoteAncestors(elem, res.calls[i].path) = 2
          /\ ParagraphLines(res.calls[i]) = <<Spaces(8) \o <<"A">>, <<>>>>
    /\ \E j \in DOMAIN res.val.v : res.val.v[j] = Spaces(8) \o <<"A">>

----------------------------------------------------------------------------
(* SpecDoc: whole documents, with or without a header and each of the      *)
(* three sections, and the divisions of a section rendered on their own.   *)

\* <div><head>Chapter One</head><p>Hello <hi rend="italic">world</hi>.</p></div>
ExampleDiv ==
    Node("div", <<Leaf("head", <<"Chapter", " ", "One">>),
                  Para(<<"Hello", " ">>,
                       <<Element("hi", [a \in {"rend"} |-> "italic"],
                                 <<"world">>, <<>>, <<".">>)>>)>>)

StyledDiv ==
    Element("div", [a \in {"rend"} |-> "italic"], <<>>,
            <<Leaf("head", <<"One">>), Leaf("p", <<"B">>)>>, <<>>)

\* The children a section may have.
SectionKids ==
    {<<ExampleDiv>>, <<StyledDiv, Leaf("p", <<"A">>)>>,
     <<Leaf("p", <<"A">>), ExampleDiv>>, <<>>}

Header ==
    Node("teiHeader",
         <<Node("fileDesc", <<Node("titleStmt", <<Leaf("title", <<"T">>)>>)>>)>>)

\* A header whose title element has no text: get_title returns None.
EmptyTitleHeader ==
    Node("teiHeader",
         <<Node("fileDesc", <<Node("titleStmt", <<Leaf("title", <<>>)>>)>>)>>)

\* The sections of a document: each one absent or present, in any order.
SectionLists ==
    LET opt(tag) == {<<>>} \cup {<<Node(tag, k)>> : k \in SectionKids}
    IN  {f \o m \o b : f \in opt("front"), m \in opt("body"), b \in opt("back")}
        \cup {b \o m \o f :
                 f \in opt("front"), m \in opt("body"), b \in opt("back")}

Documents ==
    {Node("TEI", h \o <<Node("text", ss)>>) :
        h \in {<<>>, <<Header>>, <<EmptyTitleHeader>>}, ss \in SectionLists}

ExampleDocument == Node("TEI", <<Header, Node("text", <<Node("body", <<ExampleDiv>>)>>)>>)

InitDoc ==
    \/ Ready(InlineRenderers, Documents, {DefaultContext})
    \/ Ready(InlineRenderers, {ExampleDiv, StyledDiv},
             {with_parent(RenderContext([parent_tag |-> "TEI"]), t, "") :
                 t \in {"front", "body", "back"}})

NextDoc ==
    \/ CallTraverseDocument
    \/ CallTraverseElement

SpecDoc == InitDoc /\ [][NextDoc]_vars

\* The lines the text renderer is to put out for a heading, by section.
HeadingBySection(section, heading) ==
    CASE section = "body" -> <<<<>>, <<>>, <<>>, Upper(heading), <<>>, <<>>>>
      [] section = "front" -> <<heading, Rep(<<"=">>, StrLen(heading)), <<>>>>
      [] section = "back" -> <<Upper(heading), <<>>>>

IsPrefix(s, t) == Len(s) <= Len(t) /\ SubSeq(t, 1, Len(s)) = s

\* C4: with the text renderer the heading of a division rendered under a
\* section context comes out in the format of that section (body: three
\* blank lines, upper case, two blank lines; front: the text and a rule of
\* '='; back: upper case and one blank line), and the example division
\* under a body context gives '', '', '', 'CHAPTER ONE', '', '',
\* 'Hello _world_.', '', also as the only division of a document's body.
C4_HeadingBySection ==
    /\ (Done("traverse_element") /\ renderer.fmt = "text"
        /\ elem.tag = "div" /\ ctx.parent_tag \in {"front", "body", "back"}) =>
          /\ res.val.t = "list"
          /\ IsPrefix(HeadingBySection(ctx.parent_tag,
                                       Strip(extract_plain_text(elem.kids[1]))),
                      res.val.v)
          /\ (elem = ExampleDiv /\ ctx.parent_tag = "body") =>
                res.val.v = <<<<>>, <<>>, <<>>, <<"CHAPTER", " ", "ONE">>,
                              <<>>, <<>>, <<"Hello", " ", "_", "world", "_", ".">>,
                              <<>>>>
    /\ (Done("traverse_document") /\ renderer.fmt = "text"
        /\ elem = ExampleDocument) =>
          res.val = PyList(<<<<>>, <<>>, <<>>, <<"CHAPTER", " ", "ONE">>,
                             <<>>, <<>>,
                             <<"Hello", " ", "_", "world", "_", ".">>, <<>>>>)

\* The positions in the log of the events of function fn.
EventsOf(log, fn) == SelectSeq(log, LAMBDA ev : ev.fn = fn)

\* The sections a document has, in the order front, body, back.
SectionsPresent(doc) ==
    LET places == Descendants(doc, <<>>)
        tags == {NodeAt(doc, places[i]).tag : i \in DOMAIN places}
    IN  SelectSeq(<<"front", "body", "back">>, LAMBDA t : t \in tags)

\* The part of the log that belongs to its k-th section: from the k-th
\* traverse_section event up to the next one or the closing event.
SectionLog(log, k) ==
    LET at == {i \in DOMAIN log : log[i].fn = "traverse_section"}
        start == CHOOSE i \in at : Cardinality({j \in at : j <= i}) = k
        later == {j \in DOMAIN log :
                     j > start /\ log[j].fn \in {"traverse_section",
                                                 "render_document_end"}}
        stop == CHOOSE j \in later : \A m \in later : j <= m
    IN  SubSeq(log, start, stop - 1)

\* C5: traverse_document runs the preamble first and the closing last, each
\* once; between them it goes through the sections that are present, front
\* then body then back, each once; inside a section the children are
\* dispatched in document order, each under a context whose parent_tag is
\* the child's tag and whose parent_rend is the child's rend attribute; the
\* output is the preamble, the sections' contents in that order and the
\* closing.
C5_DocumentOrder ==
    Done("traverse_document") =>
        LET log == res.calls
            secs == EventsOf(log, "traverse_section")
            present == SectionsPresent(elem)
        IN  /\ Head(log).fn = "render_document_start"
            /\ log[Len(log)].fn = "render_document_end"
            /\ Len(EventsOf(log, "render_document_start")) = 1
            /\ Len(EventsOf(log, "render_document_end")) = 1
            /\ [k \in DOMAIN secs |-> secs[k].tag] = present
            /\ \A k \in DOMAIN secs :
                  LET sec == NodeAt(elem, secs[k].path)
                      top == SelectSeq(SectionLog(log, k),
                                 LAMBDA ev : /\ ev.fn = "render_element"
                                             /\ Len(ev.path)
                                                  = Len(secs[k].path) + 1)
                  IN  /\ secs[k].ctx.parent_tag = secs[k].tag
                      /\ Len(top) = Len(sec.kids)
                      /\ \A i \in DOMAIN top :
                            /\ top[i].path = Append(secs[k].path, i)
                            /\ top[i].ctx.parent_tag = sec.kids[i].tag
                            /\ top[i].ctx.parent_rend
                                 = Get(sec.kids[i], "rend", "")
            /\ Flat(res.val)
                 = Flat(render_document_start(renderer, elem))
                   \o Concat([k \in DOMAIN present |->
                         LET q == FindFirst(elem, present[k])
                         IN  Flat(traverse_section(
                                 renderer, NodeAt(elem, q),
                                 [root |-> elem, path |-> q],
                                 RenderContext([parent_tag |-> present[k]])).val)])
                   \o Flat(render_document_end(renderer))

C5_Witness ==
    /\ Done("traverse_document")
    /\ Len(EventsOf(res.calls, "traverse_section")) = 3
    /\ \E i \in DOMAIN res.calls :
          /\ res.calls[i].fn = "render_element"
          /\ res.calls[i].ctx.parent_rend = "italic"
          /\ Len(res.calls[i].path) = 3 /\ res.calls[i].path[3] = 1
    /\ \E i \in DOMAIN res.calls :
          /\ res.calls[i].fn = "render_element"
          /\ Len(res.calls[i].path) = 3 /\ res.calls[i].path[3] = 2

EightBlockTags ==
    {"p", "lg", "list", "table", "figure", "div", "quote", "signed"}

\* s occurs in t as a run of consecutive atoms.
Contains(s, t) ==
    \E n \in 0..(Len(t) - Len(s)) : SubSeq(t, n + 1, n + Len(s)) = s

IsBlockQuoteRun ==
    /\ Done("traverse_element")
    /\ elem.tag = "quote"
    /\ ctx.parent_tag \notin InlineParents
    /\ \E i \in DOMAIN elem.kids : elem.kids[i].tag \in EightBlockTags

\* The dispatches of the direct children of the root, in order.
ChildCalls(log) ==
    SelectSeq(log, LAMBDA ev : ev.fn = "render_element" /\ Len(ev.path) = 1)

\* C7: a quotation rendered as a block with at least one child among the
\* eight block-level tags dispatches every such child, in document order,
\* under a context whose block_depth is one more than its own, and its
\* output contains the rendering of each of them, in every renderer.
C7_EveryBlockChildRendered ==
    IsBlockQuoteRun =>
        LET idx == SelectSeq([i \in DOMAIN elem.kids |-> i],
                       LAMBDA i : elem.kids[i].tag \in EightBlockTags)
            top == ChildCalls(res.calls)
        IN  /\ Len(top) = Len(idx)
            /\ \A n \in DOMAIN idx :
                  /\ n \in DOMAIN top
                  /\ top[n].path = <<idx[n]>>
                  /\ top[n].ctx.block_depth = ctx.block_depth + 1
                  /\ Contains(Flat(TraverseElement(
                                       renderer, elem.kids[idx[n]],
                                       Child(Root(elem), idx[n]),
                                       top[n].ctx).val),
                              Flat(res.val))

----------------------------------------------------------------------------
(* SpecRef: paragraphs holding one reference, under contexts with and      *)
(* without an identifier map.                                              *)

Ref(attrs, text) == Element("ref", attrs, text, <<>>, <<>>)

\* Reference targets: bare identifiers, fragments, URLs, the empty string.
Targets ==
    {<<"ch1">>, <<"unknown">>, <<"#", "x">>, <<"#", "ch1">>,
     <<"http://", "example.com">>, <<"https://", "example.com">>,
     <<"//", "cdn">>, <<"mailto:", "a">>, <<>>}

RefParagraphs ==
    {Para(<<"A">>, <<Ref([a \in {"target"} |-> t], <<"L">>)>>) : t \in Targets}
    \cup {Para(<<"A">>, <<Ref(NoAttrs, <<"L">>)>>)}

\* id_map: None, the empty map, and maps from identifiers to files.
IdMaps ==
    {NoIdMap, SomeIdMap(<<>>),
     SomeIdMap([k \in {<<"ch1">>} |-> <<"chapter1">>]),
     SomeIdMap([k \in {<<"ch1">>, <<"x">>} |->
                   IF k = <<"x">> THEN <<"chapter2">> ELSE <<"chapter1">>])}

InitRef ==
    Ready(InlineRenderers, RefParagraphs,
          {RenderContext([parent_tag |-> "div", xhtml |-> x, id_map |-> m]) :
              x \in BOOLEAN, m \in IdMaps})

SpecRef == InitRef /\ [][NextElement]_vars

IsRefRun ==
    /\ Done("traverse_element")
    /\ renderer.fmt # "text"
    /\ elem.kids # <<>> /\ elem.kids[1].tag = "ref"

\* The target of the reference of the paragraph ('#' when it has none).
TargetOf(p) ==
    IF "target" \in DOMAIN p.kids[1].attrs THEN p.kids[1].attrs["target"]
    ELSE <<"#">>

Registered(c, target) ==
    c.id_map # <<>> /\ target \in DOMAIN c.id_map[1]

Link(href) == <<"<a href=\"">> \o href \o <<"\">", "L", "</a>">>

\* C8: the link of a reference is <mapped-file>#<target> when the context
\* has an identifier map that registers the target; otherwise the target
\* as it is when it starts with '#', 'http://', 'https://' or '//';
\* otherwise '#' and the target.  With {ch1: chapter1}, ch1 gives
\* chapter1#ch1, unknown gives #unknown, https://example.com is unchanged.
C8_RefResolution ==
    IsRefRun =>
        LET t == TargetOf(elem)
            href == IF Registered(ctx, t) THEN ctx.id_map[1][t] \o <<"#">> \o t
                    ELSE IF t # <<>> /\ Head(t) = "#" THEN t
                    ELSE IF t # <<>> /\ Head(t) \in {"http://", "https://", "//"}
                    THEN t
                    ELSE <<"#">> \o t
        IN  /\ Contains(Link(href), Flat(res.val))
            /\ Count("<a href=\"", Flat(res.val)) = 1
            /\ (Registered(ctx, <<"ch1">>) /\ t = <<"ch1">>) =>
                  Contains(Link(<<"chapter1", "#", "ch1">>), Flat(res.val))
            /\ t = <<"unknown">> =>
                  Contains(Link(<<"#", "unknown">>), Flat(res.val))
            /\ t = <<"https://", "example.com">> =>
                  Contains(Link(<<"https://", "example.com">>), Flat(res.val))

C8_Witness ==
    /\ IsRefRun
    /\ Registered(ctx, <<"x">>)
    /\ TargetOf(elem) = <<"ch1">>
    /\ Contains(Link(<<"chapter1", "#", "ch1">>), Flat(res.val))

\* C8 as stated: only '#', 'http://' and 'https://' keep a target as it is.
C8_OnlyHttpKept ==
    IsRefRun =>
        LET t == TargetOf(elem)
            href == IF Registered(ctx, t) THEN ctx.id_map[1][t] \o <<"#">> \o t
                    ELSE IF t # <<>> /\ Head(t) = "#" THEN t
                    ELSE IF t # <<>> /\ Head(t) \in {"http://", "https://"}
                    THEN t
                    ELSE <<"#">> \o t
        IN  Contains(Link(href), Flat(res.val))

----------------------------------------------------------------------------
(* SpecStrict: the EPUB renderer on line breaks, section breaks, images    *)
(* and text with special characters, entered through render_chapter,       *)
(* through traverse_document and through traverse_element.                 *)

\* <p>a<lb/>b &amp; c</p>
BreakParagraph ==
    Para(<<"a">>, <<Element("lb", NoAttrs, <<>>, <<>>,
                            <<"b", " ", "&", " ", "c">>)>>)

\* The paragraph, a figure with an image and a description, a milestone.
StrictBlocks ==
    {BreakParagraph,
     Node("figure", <<Element("graphic", [a \in {"url"} |-> "i.png"], <<>>,
                              <<>>, <<>>),
                      Leaf("figDesc", <<"a", "<", "b">>)>>),
     Element("milestone", [a \in {"rend"} |-> "stars"], <<>>, <<>>, <<>>)}

Chapters ==
    {Node("div", h \o k) :
        h \in {<<>>, <<Leaf("head", <<"One", "&">>)>>},
        k \in {<<b>> : b \in StrictBlocks}
              \cup {<<b1, b2>> : b1, b2 \in StrictBlocks}}

StrictDocuments ==
    {Node("TEI", <<Node("text", <<Node("body", <<ch>>)>>)>>) : ch \in Chapters}

\* render_chapter returns out: it assigns no attribute of the renderer.
\* The first call made on the renderer is kept with what it returned.
FinishChapter(out) ==
    /\ pc' = "done"
    /\ res' = [op |-> "render_chapter", val |-> out.val, calls |-> out.calls]
    /\ renderer' = renderer
    /\ returned' = IF returned = <<>>
                   THEN <<[div |-> elem, id_map |-> ctx.id_map,
                           self |-> renderer, val |-> out.val]>>
                   ELSE returned
    /\ UNCHANGED <<heap, last, elem, ctx>>

\* render_chapter with the title of the renderer as the fallback title.
CallRenderChapterTitled ==
    /\ pc = "ready"
    /\ elem.tag = "div"
    /\ renderer.fmt = "epub"
    /\ FinishChapter(render_chapter(renderer, elem, renderer.title,
                                    ctx.id_map))

\* EPUBRenderer.render_chapter(div, book_title, id_map), the id_map being
\* the one of ctx.
CallRenderChapter ==
    /\ pc = "ready"
    /\ elem.tag = "div"
    /\ renderer.fmt = "epub"
    /\ FinishChapter(render_chapter(renderer, elem, PyStr(<<"Book">>),
                                    ctx.id_map))

InitStrict ==
    \/ Ready({EPUBRenderer}, StrictBlocks \cup Chapters,
             {RenderContext([parent_tag |-> t, xhtml |-> x, id_map |-> m]) :
                 t \in {"div", "body"}, x \in BOOLEAN,
                 m \in {NoIdMap,
                        SomeIdMap([k \in {<<"ch1">>} |-> <<"chapter1">>])}})
    \/ Ready({EPUBRenderer}, StrictDocuments, {DefaultContext})

NextStrict ==
    \/ CallRenderChapter
    \/ CallTraverseDocument
    \/ CallTraverseElement

SpecStrict == InitStrict /\ [][NextStrict]_vars

\* Strict form: no open line break, every image closed, no bare '&' or '<'.
Strict(s) ==
    /\ Count("<br>", s) = 0
    /\ Count("\"/>", s) = Count("<img src=\"", s)
    /\ Count("&", s) = 0
    /\ Count("<", s) = 0

\* C9: whatever the EPUB renderer puts out, through render_chapter, through
\* traverse_document or through a handler called with any context, is in
\* strict form, whatever the xhtml flag of the context passed in.
C9_AlwaysStrict ==
    (pc = "done" /\ renderer.fmt = "epub") => Strict(Flat(res.val))

----------------------------------------------------------------------------
(* SpecSession: one EPUB renderer used for call after call, chapters and   *)
(* whole documents in any order.                                           *)

\* A document with a title, one without, one whose title has no text, and
\* the chapters.
SessionInputs ==
    {ExampleDocument,
     Node("TEI", <<Node("text", <<Node("body", <<ExampleDiv>>)>>)>>),
     Node("TEI", <<EmptyTitleHeader,
                   Node("text", <<Node("body", <<ExampleDiv>>)>>)>>)}
    \cup Chapters

SessionContexts ==
    {RenderContext([id_map |-> m]) :
        m \in {NoIdMap, SomeIdMap([k \in {<<"ch1">>} |-> <<"chapter1">>])}}

InitSession == Ready({EPUBRenderer}, SessionInputs, SessionContexts)

\* The caller takes the result and prepares the next call on the same
\* renderer object.
NextCall ==
    /\ pc = "done"
    /\ pc' = "ready"
    /\ elem' \in SessionInputs
    /\ ctx' \in SessionContexts
    /\ res' = [op |-> "none", val |-> PyStr(<<>>), calls |-> <<>>]
    /\ UNCHANGED <<heap, last, renderer, returned>>

NextSession ==
    \/ CallRenderChapter
    \/ CallTraverseDocument
    \/ NextCall

SpecSession == InitSession /\ [][NextSession]_vars

\* The call about to return is render_chapter with the arguments of the
\* first render_chapter call made on the renderer.
IsRepeatedChapter ==
    /\ returned # <<>>
    /\ returned[1].div = elem
    /\ returned[1].id_map = ctx.id_map

----------------------------------------------------------------------------
(* SpecAnchor: render_chapter on divisions with and without a heading,     *)
(* with and without an xml:id.                                             *)

\* No attribute; an xml:id; an xml:id to be escaped; an id attribute in the
\* namespace render_chapter reads, plain and to be escaped.
AnchorAttrs ==
    {NoAttrs, [a \in {XmlId} |-> "ch1"], [a \in {XmlId} |-> "&"],
     [a \in {ChapterIdAttr} |-> "ch1"], [a \in {ChapterIdAttr} |-> "a&b"]}

AnchorChapters ==
    {Element("div", a, <<>>, h \o k, <<>>) :
        a \in AnchorAttrs,
        h \in {<<>>, <<Leaf("head", <<"One", "&">>)>>,
               <<Leaf("head", <<"Chapter", " ", "One">>)>>},
        k \in {<<b>> : b \in StrictBlocks}
              \cup {<<b, Leaf("p", <<"Content.">>)>> : b \in StrictBlocks}}

InitAnchor == Ready({EPUBRenderer}, AnchorChapters, SessionContexts)

SpecAnchor == InitAnchor /\ [][CallRenderChapter]_vars

\* The heading line of the chapter just rendered, with the anchor id.
HeadingLine(id) ==
    (IF id = "" THEN <<"<h2>">> ELSE <<"<h2 id=\"", EscapeAtom(id), "\">">>)
    \o Escape(Strip(extract_plain_text(Find(elem, "head")))) \o <<"</h2>">>

\* A division without any id attribute gets a heading line without an id.
HeadingWithoutId ==
    (/\ Done("render_chapter")
     /\ HasChild(elem, "head")
     /\ elem.attrs = NoAttrs)
        => /\ Contains(<<"\n">> \o HeadingLine("") \o <<"\n">>,
                       Flat(res.val))
           /\ ~Contains(<<"<h2 id=\"">>, Flat(res.val))

\* C17: the chapter of a division with a heading child and an xml:id has
\* the heading line <h2 id="identifier">; the chapter of a division with a
\* heading and no identifier has the heading line <h2> without an id.
C17_HeadingAnchor ==
    /\ HeadingWithoutId
    /\ (/\ Done("render_chapter")
        /\ HasChild(elem, "head")
        /\ XmlId \in DOMAIN elem.attrs)
           => Contains(<<"\n">> \o HeadingLine(elem.attrs[XmlId])
                           \o <<"\n">>,
                       Flat(res.val))

----------------------------------------------------------------------------
(* SpecRefCall: EPUBRenderer.render_ref called on reference elements, as   *)
(* the tests of the EPUB renderer call it.                                 *)

RefElements ==
    {Ref([a \in {"target"} |-> t], <<"L">>) : t \in Targets}
    \cup {Ref(NoAttrs, <<"L">>)}

InitRefCall ==
    Ready({EPUBRenderer}, RefElements,
          {RenderContext([parent_tag |-> t, xhtml |-> TRUE, id_map |-> m]) :
              t \in {"p", "div", "item"}, m \in IdMaps})

\* renderer.render_ref(elem, context, traverser)
CallRenderRef ==
    /\ pc = "ready"
    /\ elem.tag = "ref"
    /\ renderer.fmt = "epub"
    /\ Finish("render_ref", EPUB_render_ref(renderer, elem, Root(elem), ctx),
              renderer)

SpecRefCall == InitRefCall /\ [][CallRenderRef]_vars

\* What render_ref is to return for the reference e under context c.
RefMarkup(e, c) ==
    LET target == Get(e, "target", <<>>)
        link_text == Strip(e.text)
        href == IF Registered(c, target)
                THEN c.id_map[1][target] \o <<"#">> \o target
                ELSE IF Head(target) \in {"#", "http://", "https://"}
                THEN target
                ELSE <<"#">> \o target
    IN  IF target = <<>> THEN link_text
        ELSE <<"<a href=\"">> \o Escape(href) \o <<"\">">> \o link_text
             \o <<"</a>">>

\* C18: render_ref of the EPUB renderer returns normally for every
\* reference: the bare link text when there is no target, otherwise an
\* anchor whose href is <mapped-file>#<target> for a target registered in
\* the id_map of the context, the target itself when it starts with '#',
\* 'http://' or 'https://', and '#' and the target in every other case.
C18_RefReturns ==
    Done("render_ref")
        => /\ res.val.t = "str"
           /\ res.val.v = RefMarkup(elem, ctx)

----------------------------------------------------------------------------
(* SpecMilestone: section breaks with and without a style and a per-format *)
(* override, alone and inside a division, under the three renderers.       *)

Milestone(attrs) == Element("milestone", attrs, <<>>, <<>>, <<>>)

\* rend absent, space or stars; rend-epub absent or none.
MilestoneAttrs ==
    {NoAttrs, [a \in {"rend"} |-> "space"], [a \in {"rend"} |-> "stars"],
     [a \in {"rend-epub"} |-> "none"],
     [a \in {"rend", "rend-epub"} |-> IF a = "rend" THEN "space" ELSE "none"],
     [a \in {"rend", "rend-epub"} |-> IF a = "rend" THEN "stars" ELSE "none"]}

MilestoneInputs ==
    {Milestone(a) : a \in MilestoneAttrs}
    \cup {Node("div", <<Leaf("p", <<"A">>), Milestone(a)>>) :
             a \in MilestoneAttrs}

InitMilestone ==
    Ready(InlineRenderers, MilestoneInputs,
          {RenderContext([parent_tag |-> t, xhtml |-> x]) :
              t \in {"div", "body"}, x \in BOOLEAN})

SpecMilestone == InitMilestone /\ [][NextElement]_vars

\* The section break e without its per-format override.
WithoutOverride(e) ==
    [e EXCEPT !.attrs = [a \in DOMAIN e.attrs \ {"rend-epub"} |-> e.attrs[a]]]

IsSuppressedBreak ==
    /\ Done("traverse_element")
    /\ elem.tag = "milestone"
    /\ get_format_rend(elem, "epub", "") = "none"

\* The text and HTML renderers render the break as they do without the
\* override.
OverrideKeptElsewhere ==
    (IsSuppressedBreak /\ renderer.fmt # "epub")
        => /\ Truthy(res.val)
           /\ res.val = TraverseElement(renderer, WithoutOverride(elem),
                                        Root(elem), ctx).val

\* C19: a section break carrying rend-epub="none" produces no output in
\* the EPUB renderer, and still renders its spacing in the text and HTML
\* renderers.
C19_FormatOverride ==
    /\ OverrideKeptElsewhere
    /\ (IsSuppressedBreak /\ renderer.fmt = "epub") => ~Truthy(res.val)

----------------------------------------------------------------------------
(* SpecWrap: paragraphs of short and long words, wrapped by text renderers *)
(* of small widths at several indent levels and inside block quotations;   *)
(* one renderer has line_width 0, a width textwrap refuses.                *)

MaxWords == 3

MaxIndent == 2

Words == {"aa", "bbbb", "cccccccc", "dddddddddddd"}

\* The texts of up to n words, a space between two words.
RECURSIVE Texts(_)
Texts(n) ==
    IF n = 1 THEN {<<w>> : w \in Words}
    ELSE Texts(n - 1)
         \cup {t \o <<" ", w>> : t \in Texts(n - 1), w \in Words}

\* A paragraph on its own, in a block quotation, in two of them.
WrapInputs ==
    LET paragraphs == {Leaf("p", t) : t \in Texts(MaxWords)}
    IN  paragraphs
        \cup {Node("quote", <<para>>) : para \in paragraphs}
        \cup {Node("quote", <<Node("quote", <<para>>)>>) :
                 para \in paragraphs}

InitWrap ==
    Ready({TextRenderer(0), TextRenderer(8), TextRenderer(10)}, WrapInputs,
          {RenderContext([parent_tag |-> "div", indent_level |-> n]) :
              n \in 0..MaxIndent})

SpecWrap == InitWrap /\ [][NextElement]_vars

\* The number of block quotations around the paragraph of the input.
RECURSIVE QuoteNesting(_)
QuoteNesting(e) ==
    IF e.tag = "quote" THEN 1 + QuoteNesting(e.kids[1]) ELSE 0

\* The width of the indent of the lines of the input's paragraph.
IndentWidth == 4 * (ctx.indent_level + QuoteNesting(elem))

IsWrapRun == Done("traverse_element") /\ renderer.fmt = "text"

\* The run put out lines: textwrap did not raise.
EmitsLines == IsWrapRun /\ res.val.t = "list"

OneWord(s) == s # <<>> /\ \A i \in DOMAIN s : s[i] \notin WhiteSpace

\* C10: every line of a paragraph starts with the current indent, and is at
\* most line_width long, indent included, unless it holds just one word
\* that is longer than line_width minus the indent width; this at every
\* block-quotation nesting depth.  A renderer whose line_width is not
\* positive emits no line: the wrapping raises ValueError.
C10_LineWidth ==
    /\ IsWrapRun =>
          (res.val = PyRaise("ValueError") <=> renderer.line_width <= 0)
    /\ EmitsLines =>
          \A i \in DOMAIN res.val.v :
              LET line == res.val.v[i]
                  body == SubSeq(line, IndentWidth + 1, Len(line))
              IN  \/ line = <<>>
                  \/ /\ IsPrefix(Spaces(IndentWidth), line)
                     /\ \/ StrLen(line) <= renderer.line_width
                        \/ /\ OneWord(body)
                           /\ StrLen(body) > renderer.line_width - IndentWidth

C10_Witness ==
    /\ EmitsLines
    /\ QuoteNesting(elem) = 1
    /\ IndentWidth = 4
    /\ \E i \in DOMAIN res.val.v :
          StrLen(res.val.v[i]) > renderer.line_width
    /\ \E i \in DOMAIN res.val.v :
          /\ Count(" ", res.val.v[i]) = 5
          /\ StrLen(res.val.v[i]) <= renderer.line_width

\* C10 as stated: no line is longer than line_width, for any text.
C10_NeverLonger ==
    EmitsLines =>
        \A i \in DOMAIN res.val.v : StrLen(res.val.v[i]) <= renderer.line_width

----------------------------------------------------------------------------
(* SpecParent: quotations dispatched under every kind of parent: by a      *)
(* division, a block quotation, a verse group or a stanza, and directly    *)
(* under a context with each parent tag.                                   *)

\* The tags of the two sets of context.py, and two that are in neither.
ParentTags ==
    {"p", "item", "cell", "note", "head", "l",
     "div", "body", "front", "back", "quote", "figure", "lg", "TEI"}

ParentInputs ==
    {Quote(<<"A">>, <<>>, <<>>),
     Node("quote", <<Leaf("p", <<"A">>)>>),
     Node("quote", <<Quote(<<"A">>, <<>>, <<>>)>>),
     Node("div", <<Quote(<<"A">>, <<>>, <<>>)>>),
     Node("lg", <<Quote(<<"A">>, <<>>, <<>>)>>),
     Node("lg", <<Leaf("l", <<"A">>), Node("quote", <<Leaf("p", <<"B">>)>>)>>),
     Node("lg", <<Node("lg", <<Quote(<<"A">>, <<>>, <<>>)>>)>>)}

InitParent ==
    Ready(InlineRenderers, ParentInputs,
          {RenderContext([parent_tag |-> t]) : t \in ParentTags})

SpecParent == InitParent /\ [][NextElement]_vars

\* The output of the quotation handler for the quotation dispatched in
\* call k of the traversal.
QuoteOutput(k) ==
    render_element(renderer, NodeAt(elem, k.path), "quote",
                   [root |-> elem, path |-> k.path], k.ctx).val

\* The quotation of call k is rendered in the block form.
AsBlock(k) ==
    IF renderer.fmt = "text"
    THEN QuoteOutput(k).v # <<>>
    ELSE Head(QuoteOutput(k).v) \in {"<blockquote>", "<blockquote><p>"}

\* C12: of the contexts handed to a quotation handler none is both an
\* inline and a block parent; exactly one holds when parent_tag is one of
\* the twelve tags of the two sets and neither holds otherwise, as for a
\* quotation dispatched by a verse group under parent_tag lg; the form is
\* decided by is_inline_parent alone: block whenever it is false.
C12_ParentClassification ==
    Done("traverse_element") =>
        \A i \in DOMAIN res.calls :
            LET k == res.calls[i]
                inline == is_inline_parent(k.ctx)
                block == is_block_parent(k.ctx)
            IN  k.tag = "quote" =>
                  /\ ~(inline /\ block)
                  /\ (inline \/ block) <=>
                        k.ctx.parent_tag \in ParentTags \ {"lg", "TEI"}
                  /\ AsBlock(k) <=> ~inline

\* A verse group dispatches its quotation under parent_tag lg, neither an
\* inline nor a block parent, and the quotation comes out as a block.
C12_Witness ==
    /\ Done("traverse_element")
    /\ elem.tag = "lg"
    /\ \E i \in DOMAIN res.calls :
          /\ res.calls[i].tag = "quote"
          /\ res.calls[i].ctx.parent_tag = "lg"
          /\ ~is_inline_parent(res.calls[i].ctx)
          /\ ~is_block_parent(res.calls[i].ctx)
          /\ AsBlock(res.calls[i])

\* C12 as stated: exactly one of the two predicates holds for every context
\* a quotation handler is handed.
C12_ExactlyOne ==
    Done("traverse_element") =>
        \A i \in DOMAIN res.calls :
            res.calls[i].tag = "quote" =>
                is_inline_parent(res.calls[i].ctx)
                    # is_block_parent(res.calls[i].ctx)

----------------------------------------------------------------------------
(* SpecCombine: TEITraverser._combine_parts on lists of up to MaxParts     *)
(* parts: None, strings and lists of lines, empty ones among them, and     *)
(* lines with quotes, a backslash and characters that are not printable.   *)

MaxParts == 3

\* None is falsy and has no lines.
Parts ==
    {[t |-> "none", v |-> <<>>], PyStr(<<>>), PyStr(<<"a">>),
     PyStr(<<"b", "'">>), PyList(<<>>), PyList(<<(<<"c">>)>>),
     PyList(<<(<<"d", "'">>), <<>>>>), PyList(<<(<<>>)>>),
     PyStr(<<"U+200B">>), PyList(<<(<<"U+200B", "U+00E9">>)>>),
     PyList(<<(<<"it's", "\"", "\\">>), <<"\t", "U+E000">>>>)}

RECURSIVE PartLists(_)
PartLists(n) ==
    IF n = 0 THEN {<<>>}
    ELSE PartLists(n - 1)
         \cup {Append(ps, x) : ps \in PartLists(n - 1), x \in Parts}

\* traverser._combine_parts(parts)
CallCombineParts ==
    /\ pc = "ready"
    /\ Finish("combine_parts", Result(combine_parts(elem), <<>>), renderer)

InitCombine == Ready({HTMLRenderer}, PartLists(MaxParts), {DefaultContext})

SpecCombine == InitCombine /\ [][CallCombineParts]_vars

\* The parts that are neither None nor empty, in their order, and what the
\* strings, the lines and the string forms of a list of parts add up to.
RECURSIVE NonEmpty(_)
NonEmpty(ps) ==
    IF ps = <<>> THEN <<>>
    ELSE (IF Head(ps).t = "none" \/ Head(ps).v = <<>> THEN <<>>
          ELSE <<Head(ps)>>) \o NonEmpty(Tail(ps))

\* The strings, or the lines, of a list of parts, one after the other.
RECURSIVE Added(_)
Added(ps) == IF ps = <<>> THEN <<>> ELSE Head(ps).v \o Added(Tail(ps))

\* What str() gives for each list among Parts (U+00E9 is printable and
\* stays; U+200B and U+E000 are not).
StringForm(p) ==
    CASE p = PyList(<<(<<"c">>)>>) ->
            "['c']"
      [] p = PyList(<<(<<"d", "'">>), <<>>>>) ->
            "[\"d'\", '']"
      [] p = PyList(<<(<<>>)>>) ->
            "['']"
      [] p = PyList(<<(<<"U+200B", "U+00E9">>)>>) ->
            "['\\u200bU+00E9']"
      [] p = PyList(<<(<<"it's", "\"", "\\">>), <<"\t", "U+E000">>>>) ->
            "['it\\'s\"\\\\', '\\t\\ue000']"

\* The text of the string forms of a list of parts, one after the other.
RECURSIVE FormsAdded(_)
FormsAdded(ps) ==
    IF ps = <<>> THEN ""
    ELSE (IF Head(ps).t = "list" THEN StringForm(Head(ps))
          ELSE Glue(Head(ps).v)) \o FormsAdded(Tail(ps))

Shapes(ps) == {ps[i].t : i \in DOMAIN ps}

\* C13: _combine_parts drops the falsy parts and keeps the others in order;
\* nothing left gives '', strings alone their concatenation, lists alone
\* the list of all their lines, and a mix the concatenation of the string
\* forms.
C13_CombineParts ==
    Done("combine_parts") =>
        LET kept == NonEmpty(elem)
        IN  CASE kept = <<>> -> res.val = PyStr(<<>>)
              [] Shapes(kept) = {"str"} -> res.val = PyStr(Added(kept))
              [] Shapes(kept) = {"list"} -> res.val = PyList(Added(kept))
              [] OTHER -> /\ res.val.t = "str"
                          /\ Glue(res.val.v) = FormsAdded(kept)

\* ['a', None, [zero-width space, e acute], []] without the None and the
\* empty list is a mix: a, then the list with the space as \u200b.
C13_Witness ==
    /\ Done("combine_parts")
    /\ elem = <<PyStr(<<"a">>), [t |-> "none", v |-> <<>>],
                PyList(<<(<<"U+200B", "U+00E9">>)>>)>>
    /\ res.val = PyStr(<<"a", "[", "'", "\\u200b", "U+00E9", "'", "]">>)

----------------------------------------------------------------------------
(* SpecUnknown: elements whose tag no render_element knows, dispatched on  *)
(* their own and as the child of a division.                               *)

\* The tags TextRenderer.render_element has a handler for; the HTML
\* renderer has one for signed as well.
TextHandlerTags ==
    {"div", "head", "p", "quote", "lg", "list", "table", "figure",
     "milestone"}

UnknownElements ==
    {Element(t, NoAttrs, x, k, <<>>) :
        t \in {"ab", "opener", "byline", "signed"},
        x \in {<<"Hello">>, <<"Hello", " ", "there">>},
        k \in {<<>>,
               <<Element("hi", NoAttrs, <<"world">>, <<>>, <<".">>)>>}}

InitUnknown ==
    Ready(InlineRenderers,
          UnknownElements \cup {Node("div", <<u>>) : u \in UnknownElements},
          {RenderContext([parent_tag |-> t]) : t \in {"div", "body", "p"}})

SpecUnknown == InitUnknown /\ [][NextElement]_vars

\* C14: in every renderer, dispatching an element whose tag has no handler
\* is not an error and gives its flattened text: every word of the text of
\* the element is in the output.
C14_UnknownTagKeepsText ==
    (/\ Done("traverse_element")
     /\ elem.tag \notin TextHandlerTags \cup {"signed"}) =>
        /\ res.val.t # "raise"
        /\ \A i \in DOMAIN IterText(elem) :
              \/ IterText(elem)[i] \in WhiteSpace
              \/ Count(IterText(elem)[i], Flat(res.val)) > 0

----------------------------------------------------------------------------
(* SpecHead: headings in every place: the caption of a figure, the title   *)
(* of a verse group and of a stanza, the heading of a division, and a      *)
(* heading dispatched on its own under each parent tag.                    *)

Figure ==
    Node("figure", <<Element("graphic", [a \in {"url"} |-> "i.png"], <<>>,
                             <<>>, <<>>),
                     Leaf("head", <<"CAP">>)>>)

Poem == Node("lg", <<Leaf("head", <<"TITLE">>), Leaf("l", <<"a">>)>>)

\* <lg><head>TITLE</head><lg><head>STANZA</head><l>a</l></lg></lg>
PoemOfStanzas ==
    Node("lg", <<Leaf("head", <<"TITLE">>),
                 Node("lg", <<Leaf("head", <<"STANZA">>),
                              Leaf("l", <<"a">>)>>)>>)

\* <lg><head>Poem Title</head><l>a</l></lg>, plain and centered.
TitledPoems ==
    {Element("lg", a, <<>>,
             <<Leaf("head", <<"Poem", " ", "Title">>), Leaf("l", <<"a">>)>>,
             <<>>) : a \in {NoAttrs, [k \in {"rend"} |-> "center"]}}

HeadInputs ==
    LET blocks == {Figure, Poem, PoemOfStanzas,
                   Node("figure", <<Leaf("head", <<"CAP">>)>>)}
    IN  blocks \cup TitledPoems
        \cup {Leaf("head", <<"ONE">>), Leaf("head", <<"Stra", "U+00DF", "e">>),
              Leaf("head", <<"U+03B1", "U+FB01", "U+00FF">>)}
        \cup {Node("div", <<Leaf("head", <<"ONE">>), b>>) : b \in blocks}
        \cup {Node("quote", <<b>>) : b \in blocks}

InitHead ==
    Ready({TextRenderer(72), HTMLRenderer}, HeadInputs,
          {RenderContext([parent_tag |-> t]) :
              t \in {"div", "body", "front", "back", "figure", "lg",
                     "quote", "head"}})

SpecHead == InitHead /\ [][NextElement]_vars

HeadingParents == {"body", "front", "back", "div"}

\* Every heading dispatched under a parent that is not a section or a
\* division gets empty output from the heading handler.
HeadHandlerEmpty ==
    \A i \in DOMAIN res.calls :
        LET k == res.calls[i]
        IN  (k.tag = "head" /\ k.ctx.parent_tag \notin HeadingParents) =>
                render_element(renderer, NodeAt(elem, k.path), "head",
                               [root |-> elem, path |-> k.path],
                               k.ctx).val.v = <<>>

\* C15: in the text and the HTML renderer the heading handler gives empty
\* output under every parent_tag other than body, front, back and div,
\* and the caption of a figure and the title of a verse group, which their
\* parent's handler produces, are in the output exactly once.
C15_HeadingOnce ==
    Done("traverse_element") =>
        /\ HeadHandlerEmpty
        /\ elem.tag # "head" =>
              \A title \in {"CAP", "TITLE", "STANZA"} :
                  Count(title, IterText(elem)) = 1 =>
                      Count(title, Flat(res.val)) = 1

----------------------------------------------------------------------------
(* The writers to_html and to_epub: convert(tei_file, output_file) with no *)
(* CSS file given or found next to the input.  to_html writes one HTML     *)
(* file; to_epub writes one XHTML file per chapter.                        *)

\* process_text_content of to_html.py and of to_epub.py (the same code):
\* the text of the element and of its inline children, as it is in the
\* tree, with the markup of the children around it.
process_inline(child) ==
    CASE child.tag = "hi" ->
            IF Get(child, "rend", "italic") = "italic"
            THEN <<"<i>">> \o IterText(child) \o <<"</i>">>
            ELSE IF Get(child, "rend", "italic") = "bold"
            THEN <<"<b>">> \o IterText(child) \o <<"</b>">>
            ELSE <<"<span class=\"">> \o A(Get(child, "rend", "italic"))
                 \o <<"\">">> \o IterText(child) \o <<"</span>">>
      [] child.tag = "emph" -> <<"<em>">> \o IterText(child) \o <<"</em>">>
      [] child.tag = "ref" ->
            <<"<a href=\"">> \o Get(child, "target", <<"#">>) \o <<"\">">>
            \o IterText(child) \o <<"</a>">>
      [] child.tag = "note" ->
            <<"<sup>[">> \o IterText(child) \o <<"]</sup>">>
      [] child.tag \in {"foreign", "title"} ->
            <<"<i>">> \o IterText(child) \o <<"</i>">>
      [] OTHER -> IterText(child)

process_text_content(e) ==
    e.text
    \o Concat([i \in 1..Len(e.kids) |->
                  process_inline(e.kids[i]) \o e.kids[i].tail])

\* The lines of a stanza; to_html puts a line in a div, to_epub in a p.
process_stanza(w, stanza) ==
    <<(<<"  <div class=\"stanza\">">>)>>
    \o [i \in 1..Len(FindAll(stanza, "l")) |->
           (IF w = "to_html" THEN <<"    <div class=\"">>
            ELSE <<"    <p class=\"">>)
           \o (IF Get(FindAll(stanza, "l")[i], "rend", "") = ""
               THEN <<"line">>
               ELSE <<"line ", Get(FindAll(stanza, "l")[i], "rend", "")>>)
           \o <<"\">">> \o process_text_content(FindAll(stanza, "l")[i])
           \o (IF w = "to_html" THEN <<"</div>">> ELSE <<"</p>">>)]
    \o <<(<<"  </div>">>)>>

process_row(row) ==
    <<"  <tr>", "\n">>
    \o Join(<<"\n">>,
            [i \in 1..Len(FindAll(row, "cell")) |->
                IF Get(FindAll(row, "cell")[i], "role", "") = "label"
                THEN <<"    <th>">>
                     \o process_text_content(FindAll(row, "cell")[i])
                     \o <<"</th>">>
                ELSE <<"    <td>">>
                     \o process_text_content(FindAll(row, "cell")[i])
                     \o <<"</td>">>])
    \o <<"\n", "  </tr>">>

process_figure(w, e) ==
    Join(<<"\n">>,
         <<(IF Get(e, "rend", "") # ""
            THEN <<"<figure class=\"", Get(e, "rend", ""), "\">">>
            ELSE <<"<figure>">>)>>
         \o (IF HasChild(e, "graphic")
             THEN <<((IF w = "to_html" THEN <<"  <img src=\"">>
                      ELSE <<"  <img src=\"../">>)
                     \o A(Get(Find(e, "graphic"), "url", ""))
                     \o <<"\" alt=\"">>
                     \o (IF HasChild(e, "figDesc")
                         THEN Strip(IterText(Find(e, "figDesc")))
                         ELSE <<>>)
                     \o (IF w = "to_html" THEN <<"\">">> ELSE <<"\"/>">>))>>
             ELSE <<>>)
         \o (IF HasChild(e, "head")
             THEN <<(<<"  <figcaption>">>
                     \o process_text_content(Find(e, "head"))
                     \o <<"</figcaption>">>)>>
             ELSE <<>>)
         \o <<(<<"</figure>">>)>>)

process_line_group(w, e) ==
    Join(<<"\n">>,
         <<(<<"<div class=\"poem\">">>)>>
         \o (IF HasChild(e, "head")
             THEN <<((IF w = "to_html"
                      THEN <<"  <div class=\"poem-title\">">>
                      ELSE <<"  <p class=\"poem-title\">">>)
                     \o process_text_content(Find(e, "head"))
                     \o (IF w = "to_html" THEN <<"</div>">>
                         ELSE <<"</p>">>))>>
             ELSE <<>>)
         \o (IF HasChild(e, "lg")
             THEN Concat([i \in 1..Len(FindAll(e, "lg")) |->
                             process_stanza(w, FindAll(e, "lg")[i])])
             ELSE process_stanza(w, e))
         \o <<(<<"</div>">>)>>)

\* process_element of the writer w; parent_tag is the tag of
\* elem.getparent().  to_html wraps a nested division in a div, to_epub
\* does not.
RECURSIVE process_element(_, _, _)
process_element(w, e, parent_tag) ==
    CASE e.tag = "p" ->
            <<"<p>">> \o process_text_content(e) \o <<"</p>">>
      [] e.tag = "quote" ->
            IF parent_tag = "p"
            THEN <<"<q>">> \o process_text_content(e) \o <<"</q>">>
            ELSE <<"<blockquote><p>">> \o process_text_content(e)
                 \o <<"</p></blockquote>">>
      [] e.tag = "list" ->
            <<"<ul>", "\n">>
            \o Join(<<"\n">>,
                    [i \in 1..Len(FindAll(e, "item")) |->
                        <<"  <li>">>
                        \o process_text_content(FindAll(e, "item")[i])
                        \o <<"</li>">>])
            \o <<"\n", "</ul>">>
      [] e.tag = "table" ->
            <<"<table>", "\n">>
            \o Join(<<"\n">>,
                    [i \in 1..Len(FindAll(e, "row")) |->
                        process_row(FindAll(e, "row")[i])])
            \o <<"\n", "</table>">>
      [] e.tag = "figure" -> process_figure(w, e)
      [] e.tag = "lg" -> process_line_group(w, e)
      [] e.tag = "div" ->
            Join(<<"\n">>,
                 (IF w = "to_epub" THEN <<>>
                  ELSE IF Get(e, "type", "") # ""
                  THEN <<(<<"<div class=\"", Get(e, "type", ""), "\">">>)>>
                  ELSE <<(<<"<div>">>)>>)
                 \o [i \in 1..Len(e.kids) |->
                        process_element(w, e.kids[i], "div")]
                 \o (IF w = "to_epub" THEN <<>> ELSE <<(<<"</div>">>)>>))
      [] e.tag = "milestone" ->
            <<"<div class=\"milestone ", Get(e, "rend", "space"),
              "\"></div>">>
      [] OTHER -> process_text_content(e)

\* The children of a division but its headings, each through
\* process_element.
process_children(w, div) ==
    [i \in 1..Len(SelectSeq(div.kids, LAMBDA k : k.tag # "head")) |->
        process_element(w, SelectSeq(div.kids, LAMBDA k : k.tag # "head")[i],
                        "div")]

\* The embedded style rules of to_html.
ToHtmlCss ==
    <<<<"    body { max-width: 40em; margin: 2em auto; padding: 0 1em; font-family: serif; line-height: 1.6; }">>,
      <<"    h1 { text-align: center; }">>,
      <<"    h2 { margin-top: 2em; }">>,
      <<"    .titlepage { text-align: center; margin: 2em 0; }">>,
      <<"    .titlepage p { margin: 0.5em 0; }">>,
      <<"    .italic { font-style: italic; }">>,
      <<"    .bold { font-weight: bold; }">>,
      <<"    .underline { text-decoration: underline; }">>,
      <<"    .small-caps { font-variant: small-caps; }">>,
      <<"    blockquote { margin: 1em 2em; }">>,
      <<"    figure { margin: 2em 0; text-align: center; }">>,
      <<"    figure img { max-width: 100%; height: auto; }">>,
      <<"    figcaption { margin-top: 0.5em; font-style: italic; }">>,
      <<"    .poem { margin: 2em 0; }">>,
      <<"    .poem-title { text-align: center; font-weight: bold; margin-bottom: 1em; }">>,
      <<"    .stanza { margin-bottom: 1em; }">>,
      <<"    .line { margin: 0; }">>,
      <<"    .indent { margin-left: 2em; }">>,
      <<"    .indent2 { margin-left: 4em; }">>,
      <<"    .indent3 { margin-left: 6em; }">>,
      <<"    .center { text-align: center; }">>,
      <<"    .milestone { text-align: center; margin: 2em 0; }">>,
      <<"    .milestone.stars::before { content: \"*       *       *       *       *\"; white-space: pre; }">>,
      <<"    .milestone.space { height: 2em; }">>,
      <<"    table { border-collapse: collapse; margin: 1em 0; }">>,
      <<"    td, th { border: 1px solid #ccc; padding: 0.5em; }">>>>

\* to_html.convert: the divisions of front between <div> and </div> with
\* every child through process_element, the divisions of body with their
\* heading as <h2>, those of back between <div> and </div> with their
\* heading as <h2>.
OpenDiv(div) ==
    IF Get(div, "type", "") # ""
    THEN <<"<div class=\"", Get(div, "type", ""), "\">">>
    ELSE <<"<div>">>

HeadingOf(div) ==
    IF HasChild(div, "head")
    THEN <<(<<"<h2>">> \o process_text_content(Find(div, "head"))
            \o <<"</h2>">>)>>
    ELSE <<>>

to_html_section(doc, tag) ==
    IF FindFirst(doc, tag) = <<>> THEN <<>>
    ELSE Concat([i \in 1..Len(FindAll(NodeAt(doc, FindFirst(doc, tag)),
                                     "div")) |->
            IF tag = "front"
            THEN <<OpenDiv(FindAll(NodeAt(doc, FindFirst(doc, tag)),
                                   "div")[i])>>
                 \o [j \in 1..Len(FindAll(NodeAt(doc, FindFirst(doc, tag)),
                                          "div")[i].kids) |->
                        process_element(
                            "to_html",
                            FindAll(NodeAt(doc, FindFirst(doc, tag)),
                                    "div")[i].kids[j], "div")]
                 \o <<(<<"</div>">>)>>
            ELSE IF tag = "body"
            THEN HeadingOf(FindAll(NodeAt(doc, FindFirst(doc, tag)),
                                   "div")[i])
                 \o process_children(
                        "to_html",
                        FindAll(NodeAt(doc, FindFirst(doc, tag)), "div")[i])
            ELSE <<OpenDiv(FindAll(NodeAt(doc, FindFirst(doc, tag)),
                                   "div")[i])>>
                 \o HeadingOf(FindAll(NodeAt(doc, FindFirst(doc, tag)),
                                      "div")[i])
                 \o process_children(
                        "to_html",
                        FindAll(NodeAt(doc, FindFirst(doc, tag)), "div")[i])
                 \o <<(<<"</div>">>)>>])

to_html_convert(doc) ==
    PyStr(Join(<<"\n">>,
        <<(<<"<!DOCTYPE html>">>), <<"<html lang=\"en\">">>, <<"<head>">>,
          <<"  <meta charset=\"UTF-8\">">>,
          <<"  <meta name=\"viewport\" content=\"width=device-width, initial-scale=1.0\">">>,
          <<"  <title>">> \o FStr(get_title(doc)) \o <<"</title>">>,
          <<"  <style>">>>>
        \o ToHtmlCss
        \o <<(<<"  </style>">>), <<"</head>">>, <<"<body>">>,
             <<"<h1>">> \o FStr(get_title(doc)) \o <<"</h1>">>>>
        \o to_html_section(doc, "front")
        \o to_html_section(doc, "body")
        \o to_html_section(doc, "back")
        \o <<(<<"</body>">>), <<"</html>">>>>))

\* The decimal numeral of a chapter number.
Numeral(n) ==
    CASE n = 1 -> "1" [] n = 2 -> "2" [] n = 3 -> "3" [] n = 4 -> "4"
      [] n = 5 -> "5" [] n = 6 -> "6" [] n = 7 -> "7" [] n = 8 -> "8"
      [] n = 9 -> "9"

\* to_epub: the divisions at any depth below the section, in document
\* order; each is a chapter.
ChapterDivs(doc, tag) ==
    IF FindFirst(doc, tag) = <<>> THEN <<>>
    ELSE SelectSeq(
             [i \in 1..Len(Descendants(NodeAt(doc, FindFirst(doc, tag)),
                                       <<>>)) |->
                 NodeAt(NodeAt(doc, FindFirst(doc, tag)),
                        Descendants(NodeAt(doc, FindFirst(doc, tag)),
                                    <<>>)[i])],
             LAMBDA e : e.tag = "div")

\* to_epub.process_div_to_html
process_div_to_html(div) ==
    Join(<<"\n">>,
         (IF HasChild(div, "head")
          THEN <<(<<"<h1>">> \o Strip(IterText(Find(div, "head")))
                  \o <<"</h1>">>)>>
          ELSE <<>>)
         \o process_children("to_epub", div))

\* to_epub.get_chapter_html for the chapter of number n made from div;
\* fallback names the chapter when the division has no heading text.
get_chapter_html(div, n, fallback, book_title) ==
    Join(<<"\n">>,
         <<(<<"<?xml version=\"1.0\" encoding=\"UTF-8\"?>">>),
           <<"<!DOCTYPE html>">>,
           <<"<html xmlns=\"http://www.w3.org/1999/xhtml\">">>,
           <<"<head>">>,
           <<"  <meta charset=\"UTF-8\"/>">>,
           <<"  <title>">>
           \o (IF HasChild(div, "head")
                  /\ Strip(IterText(Find(div, "head"))) # <<>>
               THEN Strip(IterText(Find(div, "head")))
               ELSE <<fallback, Numeral(n)>>)
           \o <<" - ">> \o FStr(book_title) \o <<"</title>">>,
           <<"  <link rel=\"stylesheet\" type=\"text/css\" href=\"../stylesheet.css\"/>">>,
           <<"</head>">>,
           <<"<body>">>,
           process_div_to_html(div),
           <<"</body>">>,
           <<"</html>">>>>)

\* to_epub.convert: the chapter files text/chapterNNN.xhtml, in order.
to_epub_convert(doc) ==
    PyList(
        [i \in 1..Len(ChapterDivs(doc, "front")) |->
            get_chapter_html(ChapterDivs(doc, "front")[i], i,
                             "Front Matter ", get_title(doc))]
        \o [i \in 1..Len(ChapterDivs(doc, "body")) |->
               get_chapter_html(ChapterDivs(doc, "body")[i],
                                Len(ChapterDivs(doc, "front")) + i,
                                "Chapter ", get_title(doc))]
        \o [i \in 1..Len(ChapterDivs(doc, "back")) |->
               get_chapter_html(ChapterDivs(doc, "back")[i],
                                Len(ChapterDivs(doc, "front"))
                                + Len(ChapterDivs(doc, "body")) + i,
                                "Back Matter ", get_title(doc))])

----------------------------------------------------------------------------
(* SpecConvert: documents with one division in front, body or back, the    *)
(* division holding text with an ampersand, through both writers.          *)

AmpText == <<"PAGE", " ", "&", " ", "COMPANY">>

\* The verse of test_escape.py and other places of text.
ConvertBlocks ==
    {Node("lg", <<Leaf("l", AmpText), Leaf("l", <<"SON", " ", "&">>)>>),
     Leaf("p", AmpText),
     Para(<<"a", " ">>, <<Element("hi", NoAttrs, <<"&">>, <<>>, <<"b">>)>>),
     Leaf("quote", AmpText),
     Node("list", <<Leaf("item", AmpText)>>),
     Node("table", <<Node("row", <<Leaf("cell", AmpText)>>)>>),
     Node("figure", <<Leaf("head", AmpText)>>),
     Node("div", <<Leaf("p", AmpText)>>),
     Leaf("p", <<"plain">>)}

ConvertDocuments ==
    {Node("TEI", h \o <<Node("text", <<Node(s, <<Node("div", hd \o <<b>>)>>)>>)>>) :
        h \in {<<>>, <<Header>>}, s \in {"front", "body", "back"},
        hd \in {<<>>, <<Leaf("head", <<"Verse">>)>>,
                <<Leaf("head", <<"A", "&", "B">>)>>},
        b \in ConvertBlocks}

InitConvert == Ready({[fmt |-> "none"]}, ConvertDocuments, {DefaultContext})

\* to_html.convert(tei_file, output_file): the text of the output file.
CallToHtmlConvert ==
    /\ pc = "ready"
    /\ Finish("to_html_convert", Result(to_html_convert(elem), <<>>), renderer)

\* to_epub.convert(tei_file, output_file): the chapter files of the EPUB.
CallToEpubConvert ==
    /\ pc = "ready"
    /\ Finish("to_epub_convert", Result(to_epub_convert(elem), <<>>), renderer)

NextConvert ==
    \/ CallToHtmlConvert
    \/ CallToEpubConvert

SpecConvert == InitConvert /\ [][NextConvert]_vars

\* C21: an ampersand in the text of the source document is the entity
\* &amp; in the HTML file to_html.convert writes and in the chapter files
\* of the EPUB to_epub.convert writes; no bare ampersand is written.
C21_AmpersandEscaped ==
    (/\ pc = "done"
     /\ res.op \in {"to_html_convert", "to_epub_convert"}
     /\ Count("&", IterText(elem)) > 0)
        => /\ Count("&amp;", Flat(res.val)) > 0
           /\ Count("&", Flat(res.val)) = 0

----------------------------------------------------------------------------
(* common.filter_css_for_format.  A line of CSS is a string of atoms: the  *)
(* comment delimiters, a word after '@' with the '@', white space, and     *)
(* rule text.                                                              *)

\* \s: the characters str.isspace() holds for.
CssSpace == WhiteSpace

RECURSIVE SkipSpace(_)
SkipSpace(s) ==
    IF s # <<>> /\ Head(s) \in CssSpace THEN SkipSpace(Tail(s)) ELSE s

\* What (html|epub|both) matches under re.IGNORECASE: the four letters,
\* each in either case (no character outside ASCII matches one of them).
IgnoreCase(word) ==
    {a \o b \o c \o d :
        a \in {SubSeq(word, 1, 1), UpperChar(SubSeq(word, 1, 1))},
        b \in {SubSeq(word, 2, 2), UpperChar(SubSeq(word, 2, 2))},
        c \in {SubSeq(word, 3, 3), UpperChar(SubSeq(word, 3, 3))},
        d \in {SubSeq(word, 4, 4), UpperChar(SubSeq(word, 4, 4))}}

\* The words @(html|epub|both) matches, each with match.group(1).lower():
\* the group holds the letters of one of the three words in either case,
\* and lower-cased it is that word.
Directives ==
    [w \in {"@" \o g : g \in IgnoreCase("html") \cup IgnoreCase("epub")
                                \cup IgnoreCase("both")} |->
        CHOOSE mode \in {"html", "epub", "both"} :
            w \in {"@" \o g : g \in IgnoreCase(mode)}]

\* match.group(1).lower() for the word w of a directive.
DirectiveMode(w) == IF w \in DOMAIN Directives THEN Directives[w] ELSE "none"

\* The pattern without re.IGNORECASE.
directive_match_exact(line) ==
    LET a == SkipSpace(line)
        b == SkipSpace(Tail(a))
        c == SkipSpace(Tail(b))
    IN  IF a = <<>> \/ Head(a) # "/*" THEN "none"
        ELSE IF b = <<>> \/ Head(b) \notin {"@html", "@epub", "@both"}
        THEN "none"
        ELSE IF c = <<>> \/ Head(c) # "*/" THEN "none"
        ELSE IF SkipSpace(Tail(c)) # <<>> THEN "none"
        ELSE DirectiveMode(Head(b))

\* directive_pattern.match(line) with
\* ^\s*/\*\s*@(html|epub|both)\s*\*/\s*$ and re.IGNORECASE: the mode the
\* line sets, "none" when there is no match.
directive_match(line) ==
    LET a == SkipSpace(line)
        b == SkipSpace(Tail(a))
        c == SkipSpace(Tail(b))
    IN  IF a = <<>> \/ Head(a) # "/*" THEN "none"
        ELSE IF b = <<>> \/ DirectiveMode(Head(b)) = "none" THEN "none"
        ELSE IF c = <<>> \/ Head(c) # "*/" THEN "none"
        ELSE IF SkipSpace(Tail(c)) # <<>> THEN "none"
        ELSE DirectiveMode(Head(b))

\* The loop over the lines: output_lines from the lines left, under
\* current_mode.
RECURSIVE filter_lines(_, _, _)
filter_lines(lines, current_mode, format_type) ==
    IF lines = <<>> THEN <<>>
    ELSE IF directive_match(Head(lines)) # "none"
    THEN filter_lines(Tail(lines), directive_match(Head(lines)), format_type)
    ELSE (IF current_mode = "both" \/ current_mode = format_type
          THEN <<Head(lines)>> ELSE <<>>)
         \o filter_lines(Tail(lines), current_mode, format_type)

filter_css_for_format(css_content, format_type) ==
    IF css_content = <<>> THEN <<>>
    ELSE Join(<<"\n">>,
              filter_lines(SplitLines(css_content), "both", format_type))

----------------------------------------------------------------------------
(* SpecCss: style sheets of up to MaxCssLines lines, filtered for html,    *)
(* epub and a format no directive names.                                   *)

MaxCssLines == 3

\* Directives (plain, in other case, with other white space), lines that
\* look like one (not closed, an unknown word, text after the comment),
\* rules and the blank line.
CssLines ==
    {<<"/*", " ", "@html", " ", "*/">>,
     <<"/*", " ", "@epub", " ", "*/">>,
     <<" ", "/*", "@BOTH", "*/", "\t">>,
     <<"\t", "/*", " ", " ", "@HTML", "*/">>,
     <<"\f", "/*", "U+00A0", "@ePUB", "U+2003", "*/", "\r">>,
     <<"/*", " ", "@html">>,
     <<"/*", " ", "@pdf", " ", "*/">>,
     <<"/*", " ", "@epub", " ", "*/", " ", "x">>,
     <<"a">>, <<"b">>, <<>>}

RECURSIVE CssLineLists(_)
CssLineLists(n) ==
    IF n = 0 THEN {<<>>}
    ELSE CssLineLists(n - 1)
         \cup {Append(ls, l) : ls \in CssLineLists(n - 1), l \in CssLines}

CssInputs ==
    {[css_content |-> Join(<<"\n">>, ls), format_type |-> f] :
        ls \in CssLineLists(MaxCssLines), f \in {"html", "epub", "pdf"}}

InitCss == Ready({[fmt |-> "none"]}, CssInputs, {DefaultContext})

\* filter_css_for_format(css_content, format_type)
CallFilterCss ==
    /\ pc = "ready"
    /\ Finish("filter_css_for_format",
              Result(PyStr(filter_css_for_format(elem.css_content,
                                                 elem.format_type)), <<>>),
              renderer)

SpecCss == InitCss /\ [][CallFilterCss]_vars

\* A well-formed directive line: without its white space it is the comment
\* opener, '@html', '@epub' or '@both' in any case, and the closer.
WellFormed(line) ==
    LET ink == SelectSeq(line, LAMBDA a : a \notin CssSpace)
    IN  /\ Len(ink) = 3
        /\ ink[1] = "/*"
        /\ ink[2] \in {"@html", "@epub", "@both", "@HTML", "@Epub", "@ePUB",
                      "@BOTH"}
        /\ ink[3] = "*/"

\* The mode in force at line i: that of the last well-formed directive
\* before it, 'both' when there is none.
ModeAt(lines, i) ==
    LET before == {j \in 1..(i - 1) : WellFormed(lines[j])}
        j == CHOOSE k \in before : \A m \in before : m <= k
        word == SelectSeq(lines[j], LAMBDA a : a \notin CssSpace)[2]
    IN  IF before = {} THEN "both"
        ELSE IF word \in {"@html", "@HTML"} THEN "html"
        ELSE IF word \in {"@epub", "@Epub", "@ePUB"} THEN "epub"
        ELSE "both"

\* The lines to keep, in their order.
KeptLines(lines, format_type) ==
    LET keep == SelectSeq([i \in 1..Len(lines) |-> i],
                          LAMBDA i : /\ ~WellFormed(lines[i])
                                     /\ ModeAt(lines, i)
                                            \in {"both", format_type})
    IN  [n \in 1..Len(keep) |-> lines[keep[n]]]

\* C22: the output of filter_css_for_format is the lines of the input that
\* are not well-formed directives and stand where the mode in force (the
\* last directive before the line, 'both' at the start) is 'both' or the
\* requested format, in their order; a malformed directive is a line like
\* any other, and a format no directive names keeps the 'both' sections.
C22_CssFilter ==
    Done("filter_css_for_format")
        => res.val.v = Join(<<"\n">>,
                            KeptLines(SplitLines(elem.css_content),
                                      elem.format_type))

\* A rule, a directive for the other format in other case and white
\* space, a rule: the first rule alone is kept.
C22_Witness ==
    /\ Done("filter_css_for_format")
    /\ elem.format_type = "epub"
    /\ elem.css_content
         = <<"a", "\n", "\t", "/*", " ", " ", "@HTML", "*/", "\n", "b">>
    /\ res.val.v = <<"a">>

----------------------------------------------------------------------------
(* SpecNested: paragraphs whose quotations stand under other inline        *)
(* elements, directly in the paragraph or inside a quotation.              *)

InlineTags == {"hi", "emph", "note", "ref", "title", "foreign"}

\* <p>A <t>B <quote>C</quote></t>D</p> and the same inside a quotation.
NestedParagraphs ==
    {Para(<<"A", " ">>,
          <<Element(t, NoAttrs, <<"B", " ">>, <<Quote(<<"C">>, <<>>, <<>>)>>,
                    tl)>>) : t \in InlineTags, tl \in {<<>>, <<"D">>}}
    \cup {Para(<<>>,
               <<Quote(<<"A", " ">>,
                       <<Element(t, NoAttrs, <<"B", " ">>,
                                 <<Quote(<<"C">>, <<>>, <<>>)>>, tl)>>,
                       <<>>)>>) : t \in InlineTags, tl \in {<<>>, <<"D">>}}
    \cup {ExampleParagraph, Para(<<"A">>, TwoQuotes)}

InitNested ==
    Ready(InlineRenderers, NestedParagraphs,
          {RenderContext([parent_tag |-> "div", quote_depth |-> d]) :
              d \in {0, 1}})

SpecNested == InitNested /\ [][NextElement]_vars

\* C23: every quotation among the descendants of a paragraph, at any depth
\* and under any inline element between it and the paragraph, comes out
\* wrapped in a pair of glyphs, the pairs alternating with the number of
\* quotations around it: one pair per quotation, properly nested.
C23_QuotesUnderInline ==
    IsParagraphRun =>
        /\ Count("LDQ", Flat(res.val)) + Count("LSQ", Flat(res.val))
               = NumQuotes(elem)
        /\ Count("RDQ", Flat(res.val)) + Count("RSQ", Flat(res.val))
               = NumQuotes(elem)
        /\ Alternates(Flat(res.val), ctx.quote_depth, ctx.quote_depth)

----------------------------------------------------------------------------
(* SpecBreak: paragraphs with one line break between two runs of words,    *)
(* under text renderers of several widths.                                 *)

WordsBefore == {"aa", "bbbb"}

WordsAfter == {"cccccccc", "dddddddddddd"}

\* One word or two, from the set ws.
Runs(ws) ==
    {<<w>> : w \in ws} \cup {<<w1, " ", w2>> : w1, w2 \in ws}

\* <p>before<lb/>after</p>
BreakParagraphs ==
    {Para(b, <<Element("lb", NoAttrs, <<>>, <<>>, a)>>) :
        b \in Runs(WordsBefore), a \in Runs(WordsAfter)}

InitBreak ==
    Ready({TextRenderer(w) : w \in {16, 30, 72}}, BreakParagraphs,
          {RenderContext([parent_tag |-> "div", indent_level |-> n]) :
              n \in {0, 1}})

SpecBreak == InitBreak /\ [][NextElement]_vars

Holds(line, ws) == \E i \in 1..Len(line) : line[i] \in ws

\* C24: in the text renderer no output line of a paragraph holds text from
\* before a line break of the paragraph together with text from after it.
C24_HardBreak ==
    (Done("traverse_element") /\ renderer.fmt = "text")
        => \A i \in 1..Len(res.val.v) :
              ~(Holds(res.val.v[i], WordsBefore)
                    /\ Holds(res.val.v[i], WordsAfter))

-----------------------------------------------------------------------------
(* SpecVerse: the text renderer on verse groups whose group-level style   *)
(* is centered.                                                            *)

LineTexts == {<<"aa">>, <<"bbbbbb">>, <<"_", "cccc", "_">>}

LineRends == {"", "center", "indent", "indent2", "indent3"}

\* The attributes of an element whose only attribute is rend, if any.
Rend(value) == IF value = "" THEN NoAttrs ELSE [a \in {"rend"} |-> value]

\* <l rend="...">text</l>
VerseLine(text, rend) == Element("l", Rend(rend), text, <<>>, <<>>)

\* <lg rend="center"> with two lines, on its own and as the stanza of a
\* poem.
CenteredGroups ==
    {Element("lg", Rend("center"), <<>>,
             <<VerseLine(t1, r1), VerseLine(t2, r2)>>, <<>>) :
        t1 \in {<<"aa">>, <<"_", "cccc", "_">>}, t2 \in {<<"bbbbbb">>},
        r1 \in LineRends, r2 \in LineRends}

VersePoems == CenteredGroups \cup {Node("lg", <<g>>) : g \in CenteredGroups}

InitVerse ==
    Ready({TextRenderer(w) : w \in {20, 31}}, VersePoems,
          {RenderContext([parent_tag |-> "div", indent_level |-> n]) :
              n \in {0, 1}})

SpecVerse == InitVerse /\ [][NextElement]_vars

\* The centered group of the poem.
GroupOf(poem) ==
    IF Get(poem, "rend", "") = "center" THEN poem ELSE poem.kids[1]

\* The left padding of line i of the centered group g under width w.
PaddingOf(g, i, w) ==
    LET own == [j \in 1..Len(g.kids) |-> Text_visual_length(g.kids[j].text)]
    IN  IF Get(g.kids[i], "rend", "") = "center"
        THEN (w - own[i]) \div 2
        ELSE (w - Max({own[j] : j \in 1..Len(g.kids)})) \div 2

\* C25: in the text renderer the lines of a centered verse group that are
\* not marked centered all get the left padding (line_width - L) div 2, L
\* the longest visual length among the lines' own texts, whatever their
\* indent hints; a line marked centered gets (line_width - its own visual
\* length) div 2.
C25_CenteredGroup ==
    (Done("traverse_element") /\ renderer.fmt = "text")
        => LET g == GroupOf(elem)
           IN  \A i \in 1..Len(g.kids) :
                  res.val.v[i]
                      = Spaces(PaddingOf(g, i, renderer.line_width))
                            \o g.kids[i].text

-----------------------------------------------------------------------------
(* SpecEscape: the HTML inline extractor on text that holds the characters *)
(* html.escape replaces, in strict and in non-strict mode.                 *)

Specials == {"&", "<", ">", "\"", "'"}

Entities == {EscapeAtom(a) : a \in Specials}

EscapeTexts == {<<"a", "&", "b">>, <<"<", "\"", ">">>, <<"'", "&amp;">>}

EscapeTails == {<<>>, <<" ", "&", ">">>}

\* One inline child of each kind the extractor tells apart, a child with a
\* child of its own, and inline quotations nested up to two deep.
InlineChildren ==
    {Element(tag, NoAttrs, t, <<>>, tl) :
        tag \in {"hi", "emph", "note", "foreign", "title", "seg"},
        t \in EscapeTexts, tl \in EscapeTails}
    \cup {Element("ref", [a \in {"target"} |-> <<"n1">>], t, <<>>, tl) :
              t \in EscapeTexts, tl \in EscapeTails}
    \cup {Element("hi", NoAttrs, t, <<Element("emph", NoAttrs, t, <<>>, tl)>>,
                  <<>>) : t \in EscapeTexts, tl \in EscapeTails}
    \cup {Quote(t, <<>>, tl) : t \in EscapeTexts, tl \in EscapeTails}
    \cup {Quote(<<>>, <<Quote(t, <<>>, tl)>>, tl) :
              t \in EscapeTexts, tl \in EscapeTails}
    \cup {Quote(t, <<Element("hi", NoAttrs, t, <<>>, tl)>>, <<>>) :
              t \in EscapeTexts, tl \in EscapeTails}

EscapeParagraphs ==
    {Para(t, <<k>>) : t \in {<<>>, <<"x", "<", "y">>}, k \in InlineChildren}
    \cup {Element("signed", NoAttrs, <<"&">>, <<k>>, <<>>) :
              k \in InlineChildren}

InitEscape ==
    Ready({HTMLRenderer, EPUBRenderer}, EscapeParagraphs,
          {RenderContext([parent_tag |-> "div", xhtml |-> x]) :
              x \in BOOLEAN})

SpecEscape == InitEscape /\ [][NextElement]_vars

\* The element with html.escape applied once to every text and every tail.
RECURSIVE EscapeTree(_)
EscapeTree(e) ==
    Element(e.tag, e.attrs, Escape(e.text),
            [i \in 1..Len(e.kids) |-> EscapeTree(e.kids[i])],
            Escape(e.tail))

NonStrict(c) == [c EXCEPT !.xhtml = FALSE]

\* C26: in strict mode the output of the HTML inline extractor is the
\* non-strict output for the same element with every text fragment (text,
\* tails, the text of inline children and of nested inline quotations)
\* escaped exactly once; in non-strict mode the special characters of the
\* source reach the output as they are and no entity is added.
C26_EscapedOnce ==
    (Done("traverse_element") /\ renderer.fmt \in {"html", "epub"})
        => IF ctx.xhtml
           THEN res.val
                    = TraverseElement(renderer, EscapeTree(elem),
                                      Root(EscapeTree(elem)),
                                      NonStrict(ctx)).val
           ELSE \A a \in Specials \cup Entities :
                   Count(a, Flat(res.val)) = Count(a, IterText(elem))

\* A strict run over a nested inline quotation whose text holds an
\* ampersand, which comes out as one entity.
C26_Witness ==
    /\ Done("traverse_element")
    /\ ctx.xhtml
    /\ \E i \in 1..Len(elem.kids) :
          /\ elem.kids[i].tag = "quote"
          /\ \E j \in 1..Len(elem.kids[i].kids) :
                /\ elem.kids[i].kids[j].tag = "quote"
                /\ Count("&", elem.kids[i].kids[j].text) > 0
    /\ Count("&amp;", Flat(res.val)) > 0
    /\ Count("&amp;amp;", Flat(res.val)) = 0

-----------------------------------------------------------------------------
(* SpecLines: the text renderer on lists, figures and paragraphs whose     *)
(* text is short or long enough to wrap, alone and inside a document.      *)

ShortText == <<"one">>

LongText == <<"one", " ", "two", " ", "three", " ", "four", " ", "five">>

LineTextsOf == {ShortText, LongText, <<"_", "six", "_", " ", "seven">>}

\* A list of one or two items, a figure with a caption, a paragraph.
LineBlocks ==
    {Node("list", <<Leaf("item", t)>>) : t \in LineTextsOf}
    \cup {Node("list", <<Leaf("item", t1), Leaf("item", t2)>>) :
              t1, t2 \in LineTextsOf}
    \cup {Node("figure", <<Leaf("head", t)>>) : t \in LineTextsOf}
    \cup {Para(t, <<>>) : t \in LineTextsOf}

LineDocuments ==
    {Node("TEI", <<Node("text", <<Node("body", <<Node("div", <<b>>)>>)>>)>>) :
        b \in LineBlocks}

InitLines ==
    \/ Ready({TextRenderer(w) : w \in {16, 72}}, LineBlocks,
             {RenderContext([parent_tag |-> "div", indent_level |-> n]) :
                 n \in {0, 1}})
    \/ Ready({TextRenderer(w) : w \in {16, 72}}, LineDocuments,
             {DefaultContext})

NextLines ==
    \/ CallTraverseElement
    \/ CallTraverseDocument

SpecLines == InitLines /\ [][NextLines]_vars

\* C27: what a text-renderer handler returns, and what traverse_document
\* returns with the text renderer, is a sequence of lines none of which
\* holds a newline.
C27_SingleLines ==
    (pc = "done" /\ renderer.fmt = "text")
        => /\ res.val.t = "list"
           /\ \A i \in 1..Len(res.val.v) : Count("\n", res.val.v[i]) = 0

-----------------------------------------------------------------------------
(* SpecShapes: whole documents and chapters whose sections hold handled,   *)
(* unhandled and empty elements, under the three renderers.                *)

\* Children of a section or a chapter: one for each handler, an element no
\* handler knows, and elements whose rendering is empty.
ShapeChildren ==
    {Leaf("p", <<"A">>), Leaf("p", <<>>), Leaf("head", <<"H">>),
     Leaf("ab", <<"B">>), Leaf("signed", <<"S">>),
     Milestone([a \in {"rend"} |-> "space"]),
     Node("list", <<Leaf("item", <<"I">>)>>),
     Node("div", <<Leaf("head", <<"H">>), Leaf("ab", <<"B">>)>>),
     Quote(<<"Q">>, <<>>, <<>>),
     Node("lg", <<Leaf("l", <<"L">>)>>),
     Node("table", <<Node("row", <<Leaf("cell", <<"C">>)>>)>>),
     Node("figure", <<Leaf("head", <<"F">>)>>)}

ShapeSections ==
    {<<k>> : k \in ShapeChildren}
    \cup {<<k1, k2>> : k1 \in ShapeChildren,
                       k2 \in {Leaf("p", <<"A">>), Leaf("ab", <<"B">>)}}

ShapeDocuments ==
    {Node("TEI", <<Node("text", f \o <<Node("body", b)>> \o k)>>) :
        f \in {<<>>, <<Node("front", <<Leaf("p", <<"T">>)>>)>>},
        b \in ShapeSections,
        k \in {<<>>, <<Node("back", <<Leaf("ab", <<"B">>)>>)>>}}

ShapeChapters == {Node("div", b) : b \in ShapeSections}

InitShapes ==
    \/ Ready(InlineRenderers, ShapeDocuments, {DefaultContext})
    \/ Ready({EPUBRenderer}, ShapeChapters, {DefaultContext})

NextShapes ==
    \/ CallTraverseDocument
    \/ CallRenderChapter

SpecShapes == InitShapes /\ [][NextShapes]_vars

\* Some of the parts are text and some are line sequences.
Mixed(parts) ==
    \E i, j \in 1..Len(parts) : parts[i].t = "str" /\ parts[j].t = "list"

\* The truthy parts traverse_document hands to _combine_parts.
DocumentParts(r, doc) ==
    KeepTruthy(Result(render_document_start(r, doc), <<>>),
               Sections(r, doc, 1)).vals

\* The truthy parts traverse_section hands to _combine_parts for the k-th
\* section of SectionOrder.
SectionParts(r, doc, k) ==
    LET q == FindFirst(doc, SectionOrder[k])
        section == NodeAt(doc, q)
        c == with_parent(RenderContext([parent_tag |-> "TEI"]),
                         SectionOrder[k], "")
    IN  RenderEach(r, section.kids, [root |-> doc, path |-> q], 1,
                   [i \in 1..Len(section.kids) |->
                       with_parent(c, strip_namespace(section.kids[i].tag),
                                   Get(section.kids[i], "rend", ""))]).vals

\* C28: in a traversal started by traverse_document no combination step
\* receives parts of mixed shape, and a traversal started by render_chapter
\* has no combination step at all.
C28_NoMixedParts ==
    /\ Done("traverse_document")
          => /\ ~Mixed(DocumentParts(renderer, elem))
             /\ \A k \in 1..Len(SectionOrder) :
                   FindFirst(elem, SectionOrder[k]) # <<>>
                       => ~Mixed(SectionParts(renderer, elem, k))
    /\ Done("render_chapter")
          => \A i \in 1..Len(res.calls) :
                res.calls[i].fn # "traverse_section"

\* A text run in which the document step combines two sections and the
\* body step combines two children.
C28_Witness ==
    /\ Done("traverse_document")
    /\ renderer.fmt = "text"
    /\ Len(DocumentParts(renderer, elem)) >= 2
    /\ Len(SectionParts(renderer, elem, 2)) >= 2
    /\ res.val.t = "list"

-----------------------------------------------------------------------------
(* SpecMixedQuote: block quotations that hold text, tails and children of  *)
(* both kinds, block-level and not.                                        *)

\* Children with and without a tail: block-level ones for every renderer,
\* a signature line (block-level for HTML only), and others.
MixedChildren ==
    {Element(tag, NoAttrs, t, <<>>, tl) :
        tag \in {"p", "signed"}, t \in {<<"A">>},
        tl \in {<<>>, <<"TAIL">>}}
    \cup {Element("list", NoAttrs, <<>>, <<Leaf("item", <<"A">>)>>, tl) :
              tl \in {<<>>, <<"TAIL">>}}
    \cup {Element(tag, NoAttrs, <<"NB">>, <<>>, tl) :
              tag \in {"hi", "seg", "head"}, tl \in {<<>>, <<"TAIL">>}}

MixedQuotes ==
    {Quote(t, <<k>>, <<>>) : t \in {<<>>, <<"TXT">>}, k \in MixedChildren}
    \cup {Quote(t, <<k1, k2>>, <<>>) :
              t \in {<<>>, <<"TXT">>}, k1, k2 \in MixedChildren}

InitMixedQuote ==
    Ready(InlineRenderers, MixedQuotes,
          {RenderContext([parent_tag |-> t]) : t \in {"div", "body"}})

SpecMixedQuote == InitMixedQuote /\ [][NextElement]_vars

\* The block-level tag list of the renderer's render_quote.
QuoteBlockTags(r) ==
    IF r.fmt = "text"
    THEN {"p", "lg", "list", "table", "figure", "div", "quote"}
    ELSE {"p", "lg", "list", "table", "figure", "div", "quote", "signed"}

\* The quotation without its text, with its block-level children only, and
\* these without their tails.
BlockOnly(r, e) ==
    LET blocks == SelectSeq(e.kids, LAMBDA k : k.tag \in QuoteBlockTags(r))
    IN  Element(e.tag, e.attrs, <<>>,
                [i \in 1..Len(blocks) |-> [blocks[i] EXCEPT !.tail = <<>>]],
                e.tail)

HasBlockChild(r, e) ==
    \E i \in 1..Len(e.kids) : e.kids[i].tag \in QuoteBlockTags(r)

\* C29: a quotation rendered as a block that has a child in the renderer's
\* block-level tag list is rendered as the same quotation without its
\* direct text, without tails and without its other children; none of
\* their text is in the output (text, HTML and EPUB renderers).
C29_BlockChildrenOnly ==
    (Done("traverse_element") /\ HasBlockChild(renderer, elem))
        => /\ res.val
                 = TraverseElement(renderer, BlockOnly(renderer, elem),
                                   Root(BlockOnly(renderer, elem)), ctx).val
           /\ \A a \in {"TXT", "TAIL", "NB"} : Count(a, Flat(res.val)) = 0

\* A quotation with text, a block-level child with a tail and another
\* child, rendered to something.
C29_Witness ==
    /\ Done("traverse_element")
    /\ HasBlockChild(renderer, elem)
    /\ elem.text = <<"TXT">>
    /\ \E i, j \in 1..Len(elem.kids) :
          /\ elem.kids[i].tag \in QuoteBlockTags(renderer)
          /\ elem.kids[i].tail = <<"TAIL">>
          /\ elem.kids[j].tag = "seg"
    /\ Count("A", Flat(res.val)) > 0

-----------------------------------------------------------------------------
(* SpecIds: divisions with identifiers, with and without a heading, under  *)
(* the HTML and the EPUB renderer.                                         *)

Identifiers == {"ch1", "ch2"}

\* <div xml:id="..." type="...">, the identifier or the type left out when
\* empty.
DivAttrs(id, type) ==
    [a \in (IF id = "" THEN {} ELSE {XmlId})
            \cup (IF type = "" THEN {} ELSE {"type"}) |->
        IF a = XmlId THEN id ELSE type]

Headings == {<<>>, <<Leaf("head", <<"One">>)>>}

\* A division with the second identifier, or none, to nest in another.
InnerDivs ==
    {Element("div", DivAttrs(id, ""), <<>>, h \o <<Leaf("p", <<"B">>)>>,
             <<>>) : id \in {"", "ch2"}, h \in Headings}

\* Divisions whose identifiers are unique.
IdDivs ==
    {Element("div", DivAttrs(id, t), <<>>, h \o k, <<>>) :
        id \in {"", "ch1"}, t \in {"", "chapter"}, h \in Headings,
        k \in {<<Leaf("p", <<"A">>)>>} \cup {<<d>> : d \in InnerDivs}}

IdDocuments ==
    {Node("TEI", <<Node("text", <<Node("body", <<d>>)>>)>>) : d \in IdDivs}

InitIds ==
    \/ Ready({HTMLRenderer, EPUBRenderer}, IdDivs,
             {RenderContext([parent_tag |-> t]) : t \in {"div", "body"}})
    \/ Ready({HTMLRenderer, EPUBRenderer}, IdDocuments, {DefaultContext})

SpecIds == InitIds /\ [][NextLines]_vars

\* The number of id attributes of s whose value is id.
IdCount(id, s) ==
    Cardinality({i \in 1..(Len(s) - 1) :
                    /\ s[i] \in {"<div id=\"", "<h2 id=\""}
                    /\ s[i + 1] = id})

\* C30: in the output of the HTML renderer no identifier of the source is
\* the value of more than one id attribute.
C30_IdOnce ==
    (pc = "done" /\ renderer.fmt \in {"html", "epub"})
        => \A id \in Identifiers : IdCount(id, Flat(res.val)) <= 1

====
